---- MODULE Spec2Model ----
(***************************************************************************)
(* Company-name matcher (packages/cm): scoring, decision bands, the LLM    *)
(* arbiter and Matcher.match_one.                                          *)
(*                                                                         *)
(* Numbers: every float of the program (scores, weights, penalties,        *)
(* thresholds, confidences, cosines) is a fixed-point integer in           *)
(* thousandths (0.92 is 920); a quotient is rounded down to a thousandth.  *)
(* Strings: a token is a sequence of one-character strings, a core string  *)
(* is the tokens joined by " ".                                            *)
(***************************************************************************)
EXTENDS Integers, Sequences, FiniteSets, TLC

VARIABLES config, b_names, global_calls, cache, provider_queries, stats, last, ops,
          embedding_index, cache_file

vars == <<config, b_names, global_calls, cache, provider_queries, stats, last, ops,
          embedding_index, cache_file>>

\* An optional value (x | None): <<>> is None, <<x>> is the value x.
NoneV == <<>>

Some(x) == <<x>>

Val(o) == o[1]

(***************************************************************************)
(* Generic helpers.                                                        *)
(***************************************************************************)
Min2(x, y) == IF x <= y THEN x ELSE y

Max2(x, y) == IF x >= y THEN x ELSE y

Range(s) == {s[i] : i \in 1..Len(s)}

\* s[:n]
Take(s, n) == SubSeq(s, 1, Min2(n, Len(s)))

RECURSIVE Flatten(_)
Flatten(ss) == IF ss = <<>> THEN <<>> ELSE Head(ss) \o Flatten(Tail(ss))

\* " ".join(tokens)
RECURSIVE JoinTokens(_)
JoinTokens(tokens) ==
    IF tokens = <<>> THEN <<>>
    ELSE IF Len(tokens) = 1 THEN Head(tokens)
    ELSE Head(tokens) \o <<" ">> \o JoinTokens(Tail(tokens))

\* "".join(t[0] for t in tokens)
RECURSIVE Initials(_)
Initials(tokens) ==
    IF tokens = <<>> THEN <<>> ELSE <<Head(tokens)[1]>> \o Initials(Tail(tokens))

(***************************************************************************)
(* Static word lists (config_data/*.txt), as far as the names below use    *)
(* them.                                                                   *)
(***************************************************************************)
tok_inc == <<"i", "n", "c">>

tok_corp == <<"c", "o", "r", "p">>

DESIGNATORS == {tok_inc, tok_corp}

COLLISION_LIST == {<<"a", "b", "c">>}

is_designator(token) == token \in DESIGNATORS

is_collision(acronym) == acronym \in COLLISION_LIST

Digits == {"0", "1", "2", "3", "4", "5", "6", "7", "8", "9"}

\* re.findall(r"\d+", token): the maximal digit runs of one token, in order.
RECURSIVE DigitRuns(_, _)
DigitRuns(chars, run) ==
    IF chars = <<>> THEN (IF run = <<>> THEN <<>> ELSE <<run>>)
    ELSE IF Head(chars) \in Digits THEN DigitRuns(Tail(chars), Append(run, Head(chars)))
    ELSE (IF run = <<>> THEN <<>> ELSE <<run>>) \o DigitRuns(Tail(chars), <<>>)

RECURSIVE extract_numeric_tokens(_)
extract_numeric_tokens(tokens) ==
    IF tokens = <<>> THEN <<>>
    ELSE DigitRuns(Head(tokens), <<>>) \o extract_numeric_tokens(Tail(tokens))

\* "if acronym": neither None nor the empty string.
Truthy(acronym) == acronym # NoneV /\ Val(acronym) # <<>>

\* The blocking keys of a name: a sequence of <<key type, key value>> in the
\* insertion order of the dict.
generate_blocking_keys(core_tokens, core_string, acronym) ==
    <<<<"k_core", core_string>>>>
    \o (IF Len(core_tokens) >= 2
        THEN <<<<"k_prefix2", JoinTokens(SubSeq(core_tokens, 1, 2))>>>> ELSE <<>>)
    \o (IF Len(core_tokens) >= 3
        THEN <<<<"k_prefix3", JoinTokens(SubSeq(core_tokens, 1, 3))>>>> ELSE <<>>)
    \o (IF Truthy(acronym) THEN <<<<"k_acronym", Val(acronym)>>>> ELSE <<>>)
    \o (IF core_tokens # <<>> THEN <<<<"k_first", core_tokens[1]>>>> ELSE <<>>)

\* The NormalizedName that normalize builds from its core tokens and acronym
\* (steps 10 to 13 of normalize).
NormalizedName(core_tokens, acronym) ==
    [core_tokens    |-> core_tokens,
     core_string    |-> JoinTokens(core_tokens),
     acronym        |-> acronym,
     numeric_tokens |-> extract_numeric_tokens(core_tokens),
     keys           |-> generate_blocking_keys(core_tokens, JoinTokens(core_tokens), acronym)]

(***************************************************************************)
(* Names: what normalize returns, under the default config, for the        *)
(* strings of the test suite and of the boundary scenarios.                *)
(***************************************************************************)
tok_acme == <<"a", "c", "m", "e">>

tok_solutions == <<"s", "o", "l", "u", "t", "i", "o", "n", "s">>

tok_services == <<"s", "e", "r", "v", "i", "c", "e", "s">>

tok_apple == <<"a", "p", "p", "l", "e">>

tok_ibm == <<"i", "b", "m">>

tok_international == <<"i", "n", "t", "e", "r", "n", "a", "t", "i", "o", "n", "a", "l">>

tok_business == <<"b", "u", "s", "i", "n", "e", "s", "s">>

tok_machines == <<"m", "a", "c", "h", "i", "n", "e", "s">>

tok_company == <<"c", "o", "m", "p", "a", "n", "y">>

tok_2020 == <<"2", "0", "2", "0">>

tok_2021 == <<"2", "0", "2", "1">>

\* "Acme Solutions", "Acme Services": two tokens, no acronym (fewer than 3 tokens).
n_acme_solutions == NormalizedName(<<tok_acme, tok_solutions>>, NoneV)

n_acme_services == NormalizedName(<<tok_acme, tok_services>>, NoneV)

\* "Acme": a single-token core.
n_acme == NormalizedName(<<tok_acme>>, NoneV)

\* "Apple Inc": the designator stays (safety revert of strip_designators).
n_apple_inc == NormalizedName(<<tok_apple, tok_inc>>, NoneV)

\* "Apple": a single-token core.
n_apple == NormalizedName(<<tok_apple>>, NoneV)

\* "IBM": upper-case single token, its own acronym.
n_ibm == NormalizedName(<<tok_ibm>>, Some(tok_ibm))

\* "International Business Machines": three tokens, acronym ibm.
n_intl_bm == NormalizedName(<<tok_international, tok_business, tok_machines>>, Some(tok_ibm))

\* "Company 2020", "Company 2021": numeric tokens.
n_company_2020 == NormalizedName(<<tok_company, tok_2020>>, NoneV)

n_company_2021 == NormalizedName(<<tok_company, tok_2021>>, NoneV)

\* A name that shares no key with any other ("Zzzzz Unique Name" in the tests).
n_zzz == NormalizedName(<<<<"z", "z", "z">>>>, NoneV)

Names == {n_acme_solutions, n_acme_services, n_acme, n_apple_inc, n_apple, n_ibm, n_intl_bm,
          n_company_2020, n_company_2021, n_zzz}

(***************************************************************************)
(* Configuration (config.py).                                              *)
(***************************************************************************)
DefaultConfig ==
    [w_token |-> 350, w_fuzzy |-> 300, w_acronym |-> 200, w_semantic |-> 150,
     p_numeric_mismatch |-> 300, p_numeric_one_side_only |-> 100,
     p_short_name_guardrail |-> 250,
     t_high |-> 920, t_low |-> 750, margin |-> 60,
     max_candidates_total |-> 500, max_candidates_lexical |-> 300,
     max_candidates_embedding |-> 200, use_k_first |-> TRUE,
     embedding_enabled |-> FALSE,
     llm_enabled |-> FALSE, top_k |-> 3, global_call_cap |-> 50,
     min_confidence |-> 750, forbid_both_single_token |-> TRUE,
     provider |-> "none"]

\* The amount the semantic cap puts the score below t_high (0.01).
SemanticCapGap == 10

(***************************************************************************)
(* acronyms.py                                                             *)
(***************************************************************************)
acronym_relation(a_acronym, a_core_tokens, b_acronym, b_core_tokens) ==
    IF Truthy(a_acronym) /\ Truthy(b_acronym) /\ a_acronym = b_acronym
    THEN (IF is_collision(Val(a_acronym)) THEN "collision" ELSE "exact")
    ELSE IF Truthy(a_acronym) /\ Len(b_core_tokens) >= 3
            /\ Val(a_acronym) = Initials(b_core_tokens)
    THEN (IF is_collision(Val(a_acronym)) THEN "collision" ELSE "initialism")
    ELSE IF Truthy(b_acronym) /\ Len(a_core_tokens) >= 3
            /\ Val(b_acronym) = Initials(a_core_tokens)
    THEN (IF is_collision(Val(b_acronym)) THEN "collision" ELSE "initialism")
    ELSE "none"

(***************************************************************************)
(* scoring.py                                                              *)
(***************************************************************************)
effective_core(name) ==
    LET effective == SelectSeq(name.core_tokens, LAMBDA t : ~is_designator(t))
    IN IF Len(effective) = 0 THEN name.core_tokens ELSE effective

\* |A & B| / min(|A|, |B|) on the effective-core token sets, in thousandths.
token_overlap(a, b) ==
    LET a_set == Range(effective_core(a))
        b_set == Range(effective_core(b))
        min_len == Min2(Cardinality(a_set), Cardinality(b_set))
    IN IF min_len > 0 THEN (1000 * Cardinality(a_set \cap b_set)) \div min_len ELSE 0

acronym_score_of(acr_rel) ==
    CASE acr_rel = "exact" -> 1000
      [] acr_rel = "initialism" -> 900
      [] acr_rel = "collision" -> 300
      [] OTHER -> 0

numeric_penalty(a, b, cfg) ==
    LET a_nums == Range(a.numeric_tokens)
        b_nums == Range(b.numeric_tokens)
    IN IF a_nums # {} /\ b_nums # {}
       THEN (IF a_nums # b_nums THEN cfg.p_numeric_mismatch ELSE 0)
       ELSE IF a_nums # {} \/ b_nums # {} THEN cfg.p_numeric_one_side_only
       ELSE 0

Clamp01(x) == Max2(0, Min2(1000, x))

\* lexical_only_score of the semantic-cap block (lines 137-145); the caller
\* guarantees lexical_weight # 0.
lexical_only_score(overlap, fuzzy_score, acronym_score, penalty, short_penalty, cfg) ==
    LET lexical_weight == cfg.w_token + cfg.w_fuzzy
                          + (IF acronym_score > 0 THEN cfg.w_acronym ELSE 0)
        lexical_sum == cfg.w_token * overlap + cfg.w_fuzzy * fuzzy_score
                       + (IF acronym_score > 0 THEN cfg.w_acronym * acronym_score ELSE 0)
    IN (lexical_sum \div lexical_weight) - penalty - short_penalty

\* The cap left out: the clamped score is returned as it is.
semantic_cap_missing(score, lexical_only, cfg) == score

\* The semantic cap (lines 146-148): the score after the cap.
semantic_cap(score, lexical_only, cfg) ==
    IF lexical_only < cfg.t_high /\ score >= cfg.t_high
    THEN cfg.t_high - SemanticCapGap
    ELSE score

\* score_pair(a, b, config, embedding_cosine); fuzzy_score is what
\* fuzz.WRatio(a_eff_string, b_eff_string) / 100 returns (rapidfuzz, an
\* external library). exc is the exception that escapes, "none" if none.
score_pair(a, b, cfg, embedding_cosine, fuzzy_score) ==
    LET overlap == token_overlap(a, b)
        acr_rel == acronym_relation(a.acronym, a.core_tokens, b.acronym, b.core_tokens)
        acronym_score == acronym_score_of(acr_rel)
        penalty == numeric_penalty(a, b, cfg)
        min_core_len == Min2(Len(a.core_tokens), Len(b.core_tokens))
        short_penalty == IF min_core_len <= 1 THEN cfg.p_short_name_guardrail ELSE 0
        has_semantic == embedding_cosine # NoneV /\ min_core_len > 1
        semantic_score == IF has_semantic THEN Max2(0, Val(embedding_cosine)) ELSE 0
        sem_active == has_semantic /\ semantic_score > 0
        active_weight_sum == cfg.w_token + cfg.w_fuzzy
                             + (IF acronym_score > 0 THEN cfg.w_acronym ELSE 0)
                             + (IF sem_active THEN cfg.w_semantic ELSE 0)
        weighted_sum == cfg.w_token * overlap + cfg.w_fuzzy * fuzzy_score
                        + (IF acronym_score > 0 THEN cfg.w_acronym * acronym_score ELSE 0)
                        + (IF sem_active THEN cfg.w_semantic * semantic_score ELSE 0)
        raw_score == IF active_weight_sum > 0 THEN weighted_sum \div active_weight_sum ELSE 0
        score0 == Clamp01(raw_score - penalty - short_penalty)
        lexical_weight == cfg.w_token + cfg.w_fuzzy
                          + (IF acronym_score > 0 THEN cfg.w_acronym ELSE 0)
        div_by_zero == has_semantic /\ lexical_weight = 0
        lexical_only == IF lexical_weight = 0 THEN 0 - penalty - short_penalty
                        ELSE lexical_only_score(overlap, fuzzy_score, acronym_score,
                                                penalty, short_penalty, cfg)
        score == IF has_semantic /\ ~div_by_zero
                 THEN semantic_cap(score0, lexical_only, cfg) ELSE score0
    IN [exc          |-> IF div_by_zero THEN "ZeroDivisionError" ELSE "none",
        score        |-> score,
        has_semantic |-> has_semantic,
        capped       |-> has_semantic /\ ~div_by_zero /\ score # score0,
        score0       |-> score0,
        lexical_only |-> lexical_only,
        acr_rel      |-> acr_rel,
        short        |-> min_core_len <= 1,
        penalty      |-> penalty]

(***************************************************************************)
(* matcher.py: decision bands.                                             *)
(***************************************************************************)
\* The low band read as strictly below t_low.
decide_strict_low(best_score, runner_up_score, margin, cfg) ==
    IF best_score < cfg.t_low THEN "NO_MATCH"
    ELSE IF best_score >= cfg.t_high /\ (margin = NoneV \/ Val(margin) >= cfg.margin)
    THEN "MATCH"
    ELSE "REVIEW"

decide(best_score, runner_up_score, margin, cfg) ==
    IF best_score <= cfg.t_low THEN "NO_MATCH"
    ELSE IF best_score >= cfg.t_high /\ (margin = NoneV \/ Val(margin) >= cfg.margin)
    THEN "MATCH"
    ELSE "REVIEW"

(***************************************************************************)
(* index.py: BlockingIndex.                                                *)
(***************************************************************************)
\* BlockingIndex.build: the posting set of one composite key. A key type that
\* build skips (k_first with use_k_first off) has no posting.
posting(names, key, cfg) ==
    {b_id \in 1..Len(names) :
        /\ ~(key[1] = "k_first" /\ ~cfg.use_k_first)
        /\ key \in Range(names[b_id].keys)}

\* candidates[b_id].add(source): candidates is a sequence of [b_id, sources]
\* in the insertion order of the dict.
add_source(candidates, b_id, source) ==
    IF \E i \in 1..Len(candidates) : candidates[i].b_id = b_id
    THEN [i \in 1..Len(candidates) |->
            IF candidates[i].b_id = b_id
            THEN [candidates[i] EXCEPT !.sources = @ \cup {source}]
            ELSE candidates[i]]
    ELSE Append(candidates, [b_id |-> b_id, sources |-> {source}])

\* The b_ids of a posting set in iteration order: CPython iterates a set of
\* small non-negative ints in ascending order.
RECURSIVE ascending(_)
ascending(ids) ==
    IF ids = {} THEN <<>>
    ELSE LET m == CHOOSE x \in ids : \A y \in ids : x <= y
         IN <<m>> \o ascending(ids \ {m})

RECURSIVE add_all(_, _, _)
add_all(candidates, ids, source) ==
    IF ids = <<>> THEN candidates
    ELSE add_all(add_source(candidates, Head(ids), source), Tail(ids), source)

\* The lexical blocking loop (lines 45-50).
RECURSIVE lexical_hits(_, _, _, _)
lexical_hits(candidates, keys, names, cfg) ==
    IF keys = <<>> THEN candidates
    ELSE LET key == Head(keys)
             next == IF key[1] = "k_first" /\ ~cfg.use_k_first THEN candidates
                     ELSE add_all(candidates, ascending(posting(names, key, cfg)), key[1])
         IN lexical_hits(next, Tail(keys), names, cfg)

\* The caps taking the first candidates in insertion order, without sorting.
sort_by_sources_unsorted(candidates) == candidates

\* list.sort(key=lambda bid: len(candidates[bid]), reverse=True): stable.
RECURSIVE insert_by_sources(_, _)
insert_by_sources(sorted, c) ==
    IF sorted = <<>> THEN <<c>>
    ELSE IF Cardinality(Head(sorted).sources) >= Cardinality(c.sources)
    THEN <<Head(sorted)>> \o insert_by_sources(Tail(sorted), c)
    ELSE <<c>> \o sorted

RECURSIVE sort_by_sources(_)
sort_by_sources(candidates) ==
    IF candidates = <<>> THEN <<>>
    ELSE insert_by_sources(sort_by_sources(SubSeq(candidates, 1, Len(candidates) - 1)),
                           candidates[Len(candidates)])

\* BlockingIndex.retrieve_candidates(a_name, embedding_candidates).
\* embedding_candidates is NoneV or Some(a sequence of b_ids). After the
\* lexical cap has rebuilt candidates as a plain dict, adding the source of
\* an absent b_id raises KeyError.
retrieve_candidates(a_name, embedding_candidates, names, cfg) ==
    LET lexical == lexical_hits(<<>>, a_name.keys, names, cfg)
        lex_capped == Len(lexical) > cfg.max_candidates_lexical
        kept == IF lex_capped
                THEN Take(sort_by_sources(lexical), cfg.max_candidates_lexical)
                ELSE lexical
        emb == IF embedding_candidates = NoneV THEN <<>>
               ELSE Take(Val(embedding_candidates), cfg.max_candidates_embedding)
        key_error == lex_capped
                     /\ \E i \in 1..Len(emb) :
                            \A j \in 1..Len(kept) : kept[j].b_id # emb[i]
        merged == add_all(kept, emb, "embedding")
        final == IF Len(merged) > cfg.max_candidates_total
                 THEN Take(sort_by_sources(merged), cfg.max_candidates_total)
                 ELSE merged
    IN [exc |-> IF key_error THEN "KeyError" ELSE "none",
        candidates |-> IF key_error THEN <<>> ELSE final]

(***************************************************************************)
(* llm_arbiter.py: LLMArbiter. Its state is global_calls (_global_calls),  *)
(* cache (_cache, a function from cache keys to responses) and, for the    *)
(* checks, provider_queries: how often provider.query was called for each  *)
(* ordered pair of core strings (a function from the pairs queried).       *)
(***************************************************************************)
\* The cache key: sha256 prefixes of the two core strings, in order. The
\* hash is taken as injective on the strings of the model.
\* The key built without regard to the order of the two names.
cache_key_unordered(a, b) ==
    LET both == {a.core_string, b.core_string}
        first == CHOOSE x \in both : TRUE
    IN <<first, CHOOSE y \in both : {first, y} = both>>

cache_key(a, b) == <<a.core_string, b.core_string>>

LLMResponse(decision, confidence, reason) ==
    [decision |-> decision, confidence |-> confidence, reason |-> reason]

\* The confidence threshold read as strictly above min_confidence.
map_response_strict(response, cfg) ==
    IF response.decision = "SAME" /\ response.confidence > cfg.min_confidence
    THEN "MATCH"
    ELSE IF response.decision = "DIFFERENT" /\ response.confidence > cfg.min_confidence
    THEN "NO_MATCH"
    ELSE "REVIEW"

map_response(response, cfg) ==
    IF response.decision = "SAME" /\ response.confidence >= cfg.min_confidence
    THEN "MATCH"
    ELSE IF response.decision = "DIFFERENT" /\ response.confidence >= cfg.min_confidence
    THEN "NO_MATCH"
    ELSE "REVIEW"

\* What provider.query does: it raises, or returns a text that is a JSON
\* object (with its decision and confidence), a text that is no JSON at all,
\* or JSON that is no object (data.get then raises AttributeError).
ProviderOutcomes ==
    {[kind |-> "raise"], [kind |-> "garbage"], [kind |-> "not_object"]}
    \cup {[kind |-> "json", decision |-> d, confidence |-> c] :
            d \in {"SAME", "DIFFERENT", "UNSURE"}, c \in {500, 750}}

\* _parse_response(raw): the response, or the exception that escapes it.
parse_response(raw) ==
    CASE raw.kind = "json" ->
            [exc |-> "none", response |-> LLMResponse(raw.decision, raw.confidence, "llm")]
      [] raw.kind = "garbage" ->
            [exc |-> "none", response |-> LLMResponse("UNSURE", 0, "parse_error")]
      [] OTHER ->
            [exc |-> "AttributeError", response |-> LLMResponse("UNSURE", 0, "")]

queried(q, pair) ==
    [p \in DOMAIN q \cup {pair} |->
        (IF p \in DOMAIN q THEN q[p] ELSE 0) + (IF p = pair THEN 1 ELSE 0)]

put(c, key, value) == [k \in DOMAIN c \cup {key} |-> IF k = key THEN value ELSE c[k]]

\* The arbiter's state after provider.query returned a text and
\* _parse_response returned a response (lines 112-115).
record_response(st, key, response, pair) ==
    [global_calls |-> st.global_calls + 1,
     cache        |-> put(st.cache, key, response),
     provider_queries |-> queried(st.provider_queries, pair)]

\* The error response left out of the cache.
record_error_uncached(st, key, response, pair) ==
    [global_calls |-> st.global_calls,
     cache        |-> st.cache,
     provider_queries |-> queried(st.provider_queries, pair)]

\* The arbiter's state after the call raised (lines 106-110).
record_error(st, key, response, pair) ==
    [global_calls |-> st.global_calls,
     cache        |-> put(st.cache, key, response),
     provider_queries |-> queried(st.provider_queries, pair)]

\* The arbiter's state after it found no provider (lines 94-97).
record_no_provider(st, key, response, pair) == st

\* The close-race gate read as margin > min_confidence.
is_eligible_strict_margin(a, b, score, runner_up_score, cfg, calls) ==
    LET a_nums == Range(a.numeric_tokens)
        b_nums == Range(b.numeric_tokens)
    IN IF ~cfg.llm_enabled THEN FALSE
       ELSE IF a_nums # {} /\ b_nums # {} /\ a_nums # b_nums THEN FALSE
       ELSE IF Len(a.core_tokens) < 2 /\ Len(b.core_tokens) < 2 THEN FALSE
       ELSE IF runner_up_score # NoneV /\ score - Val(runner_up_score) > cfg.min_confidence
       THEN FALSE
       ELSE IF calls >= cfg.global_call_cap THEN FALSE
       ELSE IF cfg.forbid_both_single_token
               /\ Len(a.core_tokens) = 1 /\ Len(b.core_tokens) = 1 THEN FALSE
       ELSE TRUE

\* The gate without rule 6 (the global cap).
is_eligible_uncapped(a, b, score, runner_up_score, cfg, calls) ==
    LET a_nums == Range(a.numeric_tokens)
        b_nums == Range(b.numeric_tokens)
    IN IF ~cfg.llm_enabled THEN FALSE
       ELSE IF a_nums # {} /\ b_nums # {} /\ a_nums # b_nums THEN FALSE
       ELSE IF Len(a.core_tokens) < 2 /\ Len(b.core_tokens) < 2 THEN FALSE
       ELSE IF runner_up_score # NoneV /\ score - Val(runner_up_score) >= cfg.min_confidence
       THEN FALSE
       ELSE IF cfg.forbid_both_single_token
               /\ Len(a.core_tokens) = 1 /\ Len(b.core_tokens) = 1 THEN FALSE
       ELSE TRUE

\* LLMArbiter.is_eligible(a, b, scored, runner_up_score); score is
\* scored.score, runner_up_score is NoneV or Some(score).
is_eligible(a, b, score, runner_up_score, cfg, calls) ==
    LET a_nums == Range(a.numeric_tokens)
        b_nums == Range(b.numeric_tokens)
    IN IF ~cfg.llm_enabled THEN FALSE
       ELSE IF a_nums # {} /\ b_nums # {} /\ a_nums # b_nums THEN FALSE
       ELSE IF Len(a.core_tokens) < 2 /\ Len(b.core_tokens) < 2 THEN FALSE
       ELSE IF runner_up_score # NoneV /\ score - Val(runner_up_score) >= cfg.min_confidence
       THEN FALSE
       ELSE IF calls >= cfg.global_call_cap THEN FALSE
       ELSE IF cfg.forbid_both_single_token
               /\ Len(a.core_tokens) = 1 /\ Len(b.core_tokens) = 1 THEN FALSE
       ELSE TRUE

\* LLMArbiter.arbitrate(a, b, scored, runner_up_score) on the arbiter state
\* st, the provider answering with outcome: the returned (decision,
\* response) and the state after the call.
arbitrate(st, a, b, cfg, outcome) ==
    LET key == cache_key(a, b)
        pair == <<a.core_string, b.core_string>>
        parsed == parse_response(outcome)
        no_provider == LLMResponse("UNSURE", 0, "no_provider")
        error == LLMResponse("UNSURE", 0, "error")
    IN IF key \in DOMAIN st.cache
       THEN [decision |-> map_response(st.cache[key], cfg),
             response |-> st.cache[key], st |-> st, path |-> "cache_hit"]
       ELSE IF cfg.provider = "none"
       THEN [decision |-> "REVIEW", response |-> no_provider,
             st |-> record_no_provider(st, key, no_provider, pair), path |-> "no_provider"]
       ELSE IF outcome.kind = "raise" \/ parsed.exc # "none"
       THEN [decision |-> "REVIEW", response |-> error,
             st |-> record_error(st, key, error, pair), path |-> "error"]
       ELSE [decision |-> map_response(parsed.response, cfg),
             response |-> parsed.response,
             st |-> record_response(st, key, parsed.response, pair),
             path |-> IF outcome.kind = "garbage" THEN "parse_error" ELSE "fresh"]

(***************************************************************************)
(* matcher.py: Matcher.match_one.                                          *)
(***************************************************************************)
\* The parameters arbitrate declares besides self (llm_arbiter.py:76-82) and
\* the keyword arguments match_one passes besides them (matcher.py:167-170).
ArbitrateParameters == {"a", "b", "scored", "runner_up_score"}

MatchOneKeywords == {"strip_categories"}

\* Python binds the call only if arbitrate declares every keyword passed;
\* otherwise the call raises TypeError before the body runs.
arbitrate_call_binds == MatchOneKeywords \subseteq ArbitrateParameters

\* Stage 2: the scored candidates, in candidate order. fuzzy[b_id] is what
\* WRatio returns for (a, b), cosine[b_id] what cosine_similarity returns.
score_candidates(a, candidates, names, cfg, fuzzy, cosine) ==
    [i \in 1..Len(candidates) |->
        LET b_id == candidates[i].b_id
            sc == score_pair(a, names[b_id], cfg,
                             IF cfg.embedding_enabled THEN cosine[b_id] ELSE NoneV,
                             fuzzy[b_id])
        IN [b_id |-> b_id, score |-> sc.score, exc |-> sc.exc]]

\* scored_candidates.sort(key=lambda x: x.score, reverse=True): stable.
RECURSIVE insert_by_score(_, _)
insert_by_score(sorted, sc) ==
    IF sorted = <<>> THEN <<sc>>
    ELSE IF Head(sorted).score >= sc.score
    THEN <<Head(sorted)>> \o insert_by_score(Tail(sorted), sc)
    ELSE <<sc>> \o sorted

RECURSIVE sort_by_score(_)
sort_by_score(scored) ==
    IF scored = <<>> THEN <<>>
    ELSE insert_by_score(sort_by_score(SubSeq(scored, 1, Len(scored) - 1)),
                         scored[Len(scored)])

\* Stage 4 entered for any decision of the bands.
arbitration_due_any_decision(decision, cfg) == cfg.llm_enabled

\* Stage 4 runs only for REVIEW with the arbiter enabled (line 153).
arbitration_due(decision, cfg) == decision = "REVIEW" /\ cfg.llm_enabled

\* The loop over top_k (lines 157-184) from position i on, on the arbiter
\* state st; outcomes[i] is what the provider would answer at position i.
\* attempts counts the arbitrate calls made.
RECURSIVE arbitration_loop(_, _, _, _, _, _, _, _)
arbitration_loop(top_k, i, a, names, cfg, st, outcomes, attempts) ==
    IF i > Len(top_k)
    THEN [exc |-> "none", overridden |-> FALSE, decision |-> "REVIEW", pos |-> 0,
          st |-> st, attempts |-> attempts]
    ELSE LET sc == top_k[i]
             b_cand == names[sc.b_id]
             sc_runner == IF Len(top_k) > 1 THEN Some(top_k[2].score) ELSE NoneV
         IN IF ~is_eligible(a, b_cand, sc.score, sc_runner, cfg, st.global_calls)
            THEN arbitration_loop(top_k, i + 1, a, names, cfg, st, outcomes, attempts)
            ELSE IF ~arbitrate_call_binds
            THEN [exc |-> "TypeError", overridden |-> FALSE, decision |-> "REVIEW",
                  pos |-> i, st |-> st, attempts |-> attempts + 1]
            ELSE LET r == arbitrate(st, a, b_cand, cfg, outcomes[i])
                 IN IF r.decision # "REVIEW"
                    THEN [exc |-> "none", overridden |-> TRUE, decision |-> r.decision,
                          pos |-> i, st |-> r.st, attempts |-> attempts + 1]
                    ELSE arbitration_loop(top_k, i + 1, a, names, cfg, r.st, outcomes,
                                          attempts + 1)

\* The early return with decision REVIEW in place of NO_MATCH.
blank_outcome_review(st, stats0) ==
    [exc |-> "none", decision |-> "REVIEW", b_id |-> NoneV, score |-> 0,
     reasons |-> "", used_llm |-> FALSE, pre |-> "none", scored |-> <<>>,
     attempts |-> 0, pos |-> 0, st |-> st, stats |-> stats0]

\* What match_one yields when it returns before scoring or an exception
\* escapes it: no result fields beyond the defaults.
blank_outcome(st, stats0) ==
    [exc |-> "none", decision |-> "NO_MATCH", b_id |-> NoneV, score |-> 0,
     reasons |-> "", used_llm |-> FALSE, pre |-> "none", scored |-> <<>>,
     attempts |-> 0, pos |-> 0, st |-> st, stats |-> stats0]

\* The MatchResult built with the best candidate's b_id whatever the
\* decision.
match_result_keeps_candidate(cfg, counted, scored, pre, loop) ==
    IF loop.exc # "none"
    THEN [blank_outcome(loop.st, counted) EXCEPT
             !.exc = loop.exc, !.pre = pre, !.scored = scored,
             !.attempts = loop.attempts, !.pos = loop.pos]
    ELSE [exc      |-> "none",
          decision |-> IF loop.overridden THEN loop.decision ELSE pre,
          b_id     |-> Some(IF loop.overridden THEN scored[loop.pos].b_id
                            ELSE scored[1].b_id),
          score    |-> IF loop.overridden THEN scored[loop.pos].score ELSE scored[1].score,
          reasons  |-> "scored",
          used_llm |-> loop.overridden,
          pre      |-> pre,
          scored   |-> scored,
          attempts |-> loop.attempts,
          pos      |-> loop.pos,
          st       |-> loop.st,
          stats    |-> [counted EXCEPT
                           !.decisions[IF loop.overridden THEN loop.decision ELSE pre] = @ + 1,
                           !.llm_overrides = @ + (IF loop.overridden THEN 1 ELSE 0)]]

\* Lines 186-217: the final decision is counted and the MatchResult built,
\* from the sorted candidates, the decision of the bands and what stage 4
\* did (loop). counted is the stats after line 129.
match_result(cfg, counted, scored, pre, loop) ==
    IF loop.exc # "none"
    THEN [blank_outcome(loop.st, counted) EXCEPT
             !.exc = loop.exc, !.pre = pre, !.scored = scored,
             !.attempts = loop.attempts, !.pos = loop.pos]
    ELSE [exc      |-> "none",
          decision |-> IF loop.overridden THEN loop.decision ELSE pre,
          b_id     |-> IF (IF loop.overridden THEN loop.decision ELSE pre) = "MATCH"
                       THEN Some(IF loop.overridden THEN scored[loop.pos].b_id
                                 ELSE scored[1].b_id)
                       ELSE NoneV,
          score    |-> IF loop.overridden THEN scored[loop.pos].score ELSE scored[1].score,
          reasons  |-> "scored",
          used_llm |-> loop.overridden,
          pre      |-> pre,
          scored   |-> scored,
          attempts |-> loop.attempts,
          pos      |-> loop.pos,
          st       |-> loop.st,
          stats    |-> [counted EXCEPT
                           !.decisions[IF loop.overridden THEN loop.decision ELSE pre] = @ + 1,
                           !.llm_overrides = @ + (IF loop.overridden THEN 1 ELSE 0)]]

\* Lines 150-184: stage 4 for the decision pre of the bands.
match_arbitrated(a, names, cfg, st, counted, scored, pre, outcomes) ==
    match_result(cfg, counted, scored, pre,
                 IF arbitration_due(pre, cfg)
                 THEN arbitration_loop(Take(scored, cfg.top_k), 1, a, names, cfg, st,
                                       outcomes, 0)
                 ELSE [exc |-> "none", overridden |-> FALSE, decision |-> pre, pos |-> 0,
                       st |-> st, attempts |-> 0])

\* Lines 132-133: the runner-up score and the margin of a sorted list.
runner_up_of(scored) == IF Len(scored) > 1 THEN Some(scored[2].score) ELSE NoneV

margin_of(scored) ==
    IF Len(scored) > 1 THEN Some(scored[1].score - scored[2].score) ELSE NoneV

\* Lines 127-147: the candidates sorted, counted and handed to the bands.
match_scored(a, names, cfg, st, stats0, scored, outcomes) ==
    match_arbitrated(a, names, cfg, st,
                     [stats0 EXCEPT !.comparisons = @ + Len(scored)], scored,
                     decide(scored[1].score, runner_up_of(scored), margin_of(scored), cfg),
                     outcomes)

\* The early return counting no_candidates only, not the decision.
match_candidates_uncounted(a, names, cfg, st, stats0, retrieved, scored0, outcomes) ==
    IF retrieved.exc # "none"
    THEN [blank_outcome(st, stats0) EXCEPT !.exc = retrieved.exc]
    ELSE IF retrieved.candidates = <<>>
    THEN [blank_outcome(st, stats0) EXCEPT
             !.reasons = "no_candidates",
             !.stats = [stats0 EXCEPT !.no_candidates = @ + 1]]
    ELSE IF \E i \in 1..Len(scored0) : scored0[i].exc # "none"
    THEN [blank_outcome(st, stats0) EXCEPT !.exc = "ZeroDivisionError"]
    ELSE match_scored(a, names, cfg, st, stats0, sort_by_score(scored0), outcomes)

\* Lines 97-125: no candidates, or every candidate scored (scored0, in
\* candidate order; an exception of score_pair escapes).
match_candidates(a, names, cfg, st, stats0, retrieved, scored0, outcomes) ==
    IF retrieved.exc # "none"
    THEN [blank_outcome(st, stats0) EXCEPT !.exc = retrieved.exc]
    ELSE IF retrieved.candidates = <<>>
    THEN [blank_outcome(st, stats0) EXCEPT
             !.reasons = "no_candidates",
             !.stats = [stats0 EXCEPT !.no_candidates = @ + 1,
                                      !.decisions["NO_MATCH"] = @ + 1]]
    ELSE IF \E i \in 1..Len(scored0) : scored0[i].exc # "none"
    THEN [blank_outcome(st, stats0) EXCEPT !.exc = "ZeroDivisionError"]
    ELSE match_scored(a, names, cfg, st, stats0, sort_by_score(scored0), outcomes)

\* Stage 2 over what stage 1 retrieved (nothing to score after an exception).
match_retrieved(a, names, cfg, st, stats0, retrieved, fuzzy, cosine, outcomes) ==
    match_candidates(a, names, cfg, st, stats0, retrieved,
                     IF retrieved.exc # "none" THEN <<>>
                     ELSE score_candidates(a, retrieved.candidates, names, cfg, fuzzy, cosine),
                     outcomes)

\* match_one from stage 1 on, for the normalized query a. The outcome: the
\* exception that escapes (exc), the MatchResult fields, the arbiter state
\* and the stats after the call, and what the call went through (the
\* pre-arbiter decision pre, the sorted candidates, the arbitrate calls).
match_one(a, names, cfg, st, stats0, embedding_candidates, fuzzy, cosine, outcomes) ==
    match_retrieved(a, names, cfg, st, stats0,
                    retrieve_candidates(a, embedding_candidates, names, cfg),
                    fuzzy, cosine, outcomes)

(***************************************************************************)
(* embeddings.py: EmbeddingIndex. Vectors are sequences of integers, unit  *)
(* vectors and similarities are in thousandths. ix is the index object     *)
(* (config, provider, embeddings, cache, api_calls, cache_hits), file the  *)
(* content of embedding_cache.json (None while the file does not exist).   *)
(***************************************************************************)
\* EmbeddingIndex(config, provider)
EmbeddingIndex(cfg, provider) ==
    [config     |-> cfg,
     provider   |-> provider,
     embeddings |-> NoneV,
     cache      |-> <<>>,
     api_calls  |-> 0,
     cache_hits |-> 0]

t_acme == n_acme.core_string

t_ibm == n_ibm.core_string

t_zzz == n_zzz.core_string

\* What the provider's embed_batch returns for one text.
embed(text) ==
    CASE text = t_acme -> <<3, 4>>
      [] text = t_ibm  -> <<4, 3>>
      [] OTHER         -> <<0, 0>>

RECURSIVE dot(_, _)
dot(a, b) ==
    IF a = <<>> \/ b = <<>> THEN 0
    ELSE Head(a) * Head(b) + dot(Tail(a), Tail(b))

\* np.linalg.norm of a vector whose norm is a whole number.
norm(v) == CHOOSE r \in 0..dot(v, v) : r * r <= dot(v, v) /\ (r + 1) * (r + 1) > dot(v, v)

\* A row of the matrix divided by its norm, a zero norm replaced by 1.
normalized(v) ==
    [i \in 1..Len(v) |-> (v[i] * 1000) \div (IF norm(v) = 0 THEN 1 ELSE norm(v))]

\* _load_cache(): the in-memory cache becomes the content of the file, if
\* the file exists.
load_cache(ix, file) ==
    IF file # NoneV THEN [ix EXCEPT !.cache = Val(file)] ELSE ix

\* _save_cache(): the file is rewritten with the in-memory cache.
save_cache(ix) == Some(ix.cache)

\* The texts of core_strings not in the cache, in order (to_compute).
to_compute_of(ix, core_strings) ==
    SelectSeq(core_strings, LAMBDA cs : cs \notin DOMAIN ix.cache)

\* The cache after the embeddings of one batch were stored.
RECURSIVE cache_batch(_, _)
cache_batch(c, texts) ==
    IF texts = <<>> THEN c
    ELSE cache_batch(put(c, Head(texts), embed(Head(texts))), Tail(texts))

\* The loop over the batches of to_compute: the embed_batch call number
\* fail_at raises (0: none does). fetched are the texts of the batches that
\* were fetched, call the number of the next embed_batch call.
RECURSIVE embed_batches(_, _, _, _, _)
embed_batches(ix, to_compute, fail_at, call, fetched) ==
    IF to_compute = <<>> THEN [ix |-> ix, exc |-> "none", fetched |-> fetched]
    ELSE IF call = fail_at THEN [ix |-> ix, exc |-> "ProviderError", fetched |-> fetched]
    ELSE embed_batches(
            [ix EXCEPT !.api_calls = @ + 1,
                       !.cache = cache_batch(@, Take(to_compute, ix.config.batch_size))],
            SubSeq(to_compute, ix.config.batch_size + 1, Len(to_compute)),
            fail_at, call + 1,
            fetched \cup Range(Take(to_compute, ix.config.batch_size)))

\* The end of _batch_embed: the cache is saved once, after the last batch,
\* if anything was computed and nothing raised.
batch_embed_saved(file, core_strings, to_compute, looped) ==
    [ix      |-> looped.ix,
     exc     |-> looped.exc,
     fetched |-> looped.fetched,
     file    |-> IF to_compute # <<>> /\ looped.exc = "none"
                 THEN save_cache(looped.ix) ELSE file,
     all_embeddings |-> IF looped.exc # "none" THEN <<>>
                        ELSE [i \in 1..Len(core_strings) |-> looped.ix.cache[core_strings[i]]]]

\* The number of core_strings found in the cache.
hits_of(ix, core_strings) ==
    Cardinality({i \in 1..Len(core_strings) : core_strings[i] \in DOMAIN ix.cache})

\* _batch_embed(core_strings)
batch_embed(ix, file, core_strings, fail_at) ==
    batch_embed_saved(
        file, core_strings, to_compute_of(ix, core_strings),
        embed_batches([ix EXCEPT !.cache_hits = @ + hits_of(ix, core_strings)],
                      to_compute_of(ix, core_strings), fail_at, 1, {}))

\* build after _batch_embed: the matrix of unit rows is stored.
build_embedded(r) ==
    IF r.exc # "none" THEN r
    ELSE [r EXCEPT !.ix.embeddings =
             Some([i \in 1..Len(r.all_embeddings) |-> normalized(r.all_embeddings[i])])]

\* A call that does nothing.
untouched(ix, file) ==
    [ix |-> ix, exc |-> "none", fetched |-> {}, file |-> file, all_embeddings |-> <<>>]

\* build(core_strings), for a non-empty list.
build(ix, file, core_strings, fail_at) ==
    IF ix.provider = "none" THEN untouched(ix, file)
    ELSE build_embedded(batch_embed(load_cache(ix, file), file, core_strings, fail_at))

\* precompute(core_strings)
precompute(ix, file, core_strings, fail_at) ==
    IF ix.provider = "none" THEN untouched(ix, file)
    ELSE batch_embed(ix, file, core_strings, fail_at)

\* embeddings @ query_emb
similarities_of(embeddings, query_emb) ==
    [i \in 1..Len(embeddings) |-> dot(embeddings[i], query_emb) \div 1000]

\* The results argpartition and argsort can give for the k best of
\* similarities: k distinct rows in descending order of similarity, no row
\* left out better than one taken; ties in any order.
top_indices_of(similarities, k) ==
    {ids \in [1..k -> 1..Len(similarities)] :
        /\ \A i, j \in 1..k : i < j =>
              /\ ids[i] # ids[j]
              /\ similarities[ids[i]] >= similarities[ids[j]]
        /\ \A i \in 1..k, o \in 1..Len(similarities) :
              o \notin Range(ids) => similarities[o] <= similarities[ids[i]]}

\* The query vector divided by its norm if that is positive.
query_unit(v) == IF norm(v) > 0 THEN normalized(v) ELSE v

\* query(core_string): the index after the call and the results it can
\* return, each a record of b_ids and similarities; fails tells whether the
\* provider raises if asked.
query(ix, core_string, fails) ==
    IF ix.embeddings = NoneV \/ ix.provider = "none"
    THEN [ix |-> ix, exc |-> "none", results |-> {[b_ids |-> <<>>, similarities |-> <<>>]}]
    ELSE IF core_string \notin DOMAIN ix.cache /\ fails
    THEN [ix |-> ix, exc |-> "ProviderError", results |-> {}]
    ELSE [ix |-> [ix EXCEPT !.cache = put(@, core_string,
                                IF core_string \in DOMAIN @ THEN @[core_string]
                                ELSE embed(core_string))],
          exc |-> "none",
          results |->
             {[b_ids |-> ids,
               similarities |->
                  [i \in 1..Len(ids) |->
                      similarities_of(Val(ix.embeddings),
                          query_unit(IF core_string \in DOMAIN ix.cache
                                     THEN ix.cache[core_string]
                                     ELSE embed(core_string)))[ids[i]]]] :
              ids \in top_indices_of(
                  similarities_of(Val(ix.embeddings),
                      query_unit(IF core_string \in DOMAIN ix.cache
                                 THEN ix.cache[core_string] ELSE embed(core_string))),
                  Min2(ix.config.ann_neighbors, Len(Val(ix.embeddings))))}]

\* _get_or_compute(core_string)
get_or_compute(ix, core_string, fails) ==
    IF core_string \in DOMAIN ix.cache
    THEN [ix |-> ix, exc |-> "none", emb |-> Some(ix.cache[core_string])]
    ELSE IF ix.provider = "none"
    THEN [ix |-> ix, exc |-> "none", emb |-> NoneV]
    ELSE IF fails
    THEN [ix |-> ix, exc |-> "ProviderError", emb |-> NoneV]
    ELSE [ix |-> [ix EXCEPT !.cache = put(@, core_string, embed(core_string))],
          exc |-> "none", emb |-> Some(embed(core_string))]

\* The cosine of two vectors, 0.0 if one of them is zero.
cosine_of(a, b) ==
    IF norm(a) = 0 \/ norm(b) = 0 THEN 0
    ELSE (dot(a, b) * 1000) \div (norm(a) * norm(b))

\* cosine_similarity after both _get_or_compute calls.
cosine_computed(got_a, got_b) ==
    IF got_a.exc # "none" THEN [ix |-> got_a.ix, exc |-> got_a.exc, res |-> NoneV]
    ELSE IF got_b.exc # "none" THEN [ix |-> got_b.ix, exc |-> got_b.exc, res |-> NoneV]
    ELSE [ix |-> got_b.ix, exc |-> "none",
          res |-> IF got_a.emb = NoneV \/ got_b.emb = NoneV THEN NoneV
                  ELSE Some(cosine_of(Val(got_a.emb), Val(got_b.emb)))]

\* cosine_similarity(core_string_a, core_string_b): the embed_batch call
\* number fail_at raises (0: none does).
cosine_similarity(ix, core_string_a, core_string_b, fail_at) ==
    IF ix.provider = "none" THEN [ix |-> ix, exc |-> "none", res |-> NoneV]
    ELSE cosine_computed(
            get_or_compute(ix, core_string_a, fail_at = 1),
            IF get_or_compute(ix, core_string_a, fail_at = 1).exc # "none"
            THEN get_or_compute(ix, core_string_a, fail_at = 1)
            ELSE get_or_compute(get_or_compute(ix, core_string_a, fail_at = 1).ix,
                                core_string_b,
                                fail_at = (IF core_string_a \in DOMAIN ix.cache THEN 1 ELSE 2)))

\* The embedding configuration of a matcher that does not use embeddings.
DefaultEmbeddingConfig == [batch_size |-> 250, ann_neighbors |-> 100]

(***************************************************************************)
(* The state machine. last is the outcome of the last operation, ops the   *)
(* number of state-changing calls made so far (bounded below).             *)
(***************************************************************************)
ZeroStats ==
    [comparisons |-> 0, no_candidates |-> 0, llm_overrides |-> 0,
     decisions |-> [d \in {"MATCH", "NO_MATCH", "REVIEW"} |-> 0]]

InitWith(configs, b_lists) ==
    /\ config \in configs
    /\ b_names \in b_lists
    /\ global_calls = 0
    /\ cache = <<>>
    /\ provider_queries = <<>>
    /\ stats = ZeroStats
    /\ last = [op |-> "init"]
    /\ ops = 0
    /\ embedding_index = EmbeddingIndex(DefaultEmbeddingConfig, "none")
    /\ cache_file = NoneV

(***************************************************************************)
(* Scoring and decision bands as pure functions: the configuration is      *)
(* drawn at the start, one step applies score_pair or _decide to inputs    *)
(* drawn from the sets below (neither reads nor writes any state, so one   *)
(* call per behaviour covers every call).                                  *)
(***************************************************************************)
\* t_high 0.85 and margin 0.10 are the thresholds of test_margin_rule; the
\* others probe the thresholds and weights a MatchConfig accepts.
ScoreConfigs ==
    {DefaultConfig,
     [DefaultConfig EXCEPT !.t_high = 850, !.margin = 100],
     [DefaultConfig EXCEPT !.t_high = 5],
     [DefaultConfig EXCEPT !.t_high = 0],
     [DefaultConfig EXCEPT !.t_low = 950],
     [DefaultConfig EXCEPT !.w_token = 0, !.w_fuzzy = 0]}

\* WRatio / 100.
FuzzyValues == {0, 300, 800, 1000}

\* embedding_cosine: None or a cosine in [-1, 1].
CosineValues == {NoneV, Some(-500), Some(0), Some(500), Some(1000)}

\* Scores handed to _decide.
DecideScores == {0, 5, 700, 750, 751, 850, 900, 919, 920, 950, 1000}

ScorePair ==
    \E a \in Names, b \in Names, cosine \in CosineValues, fuzzy \in FuzzyValues :
        /\ last.op = "init"
        /\ last' = [op |-> "score_pair", a |-> a, b |-> b, cosine |-> cosine,
                    fuzzy |-> fuzzy, res |-> score_pair(a, b, config, cosine, fuzzy)]
        /\ UNCHANGED <<embedding_index, cache_file, config, b_names, global_calls, cache, provider_queries, stats, ops>>

\* _decide as match_one calls it: runner_up_score is None or a score not
\* above best_score, margin is their difference.
Decide ==
    \E best \in DecideScores, runner \in {NoneV} \cup {Some(x) : x \in DecideScores} :
        /\ last.op = "init"
        /\ runner # NoneV => Val(runner) <= best
        /\ LET margin == IF runner # NoneV THEN Some(best - Val(runner)) ELSE NoneV
           IN last' = [op |-> "decide", best |-> best, runner |-> runner,
                       margin |-> margin,
                       decision |-> decide(best, runner, margin, config)]
        /\ UNCHANGED <<embedding_index, cache_file, config, b_names, global_calls, cache, provider_queries, stats, ops>>

InitScore == InitWith(ScoreConfigs, {<<>>})

NextScore == ScorePair \/ Decide

SpecScore == InitScore /\ [][NextScore]_vars

(***************************************************************************)
(* Properties of the decision bands and of score_pair (under SpecScore).   *)
(***************************************************************************)
\* C2: the decision is NO_MATCH when best.score <= T_low; otherwise MATCH
\* when best.score >= T_high and the margin is null or >= T_margin;
\* otherwise REVIEW. Exactly one of the three holds for every input.
C2_DecisionBands ==
    last.op = "decide" =>
        LET low == last.best <= config.t_low
            high == /\ last.best >= config.t_high
                    /\ (last.margin = NoneV \/ Val(last.margin) >= config.margin)
        IN /\ last.decision \in {"NO_MATCH", "MATCH", "REVIEW"}
           /\ (last.decision = "NO_MATCH") = low
           /\ (last.decision = "MATCH") = (~low /\ high)
           /\ (last.decision = "REVIEW") = (~low /\ ~high)

\* C2 witness: a best score exactly at T_low is NO_MATCH, and one at or
\* above T_high with a margin below T_margin is REVIEW.
C2_Witness ==
    /\ last.op = "decide"
    /\ \/ last.best = config.t_low /\ last.decision = "NO_MATCH"
       \/ /\ last.best >= config.t_high
          /\ last.best > config.t_low
          /\ last.margin # NoneV
          /\ Val(last.margin) < config.margin
          /\ last.decision = "REVIEW"

\* C3 as stated: for any config, if the lexical-only combination is below
\* T_high then the score score_pair returns is below T_high.
C3_SemanticCapAnyConfig ==
    (last.op = "score_pair" /\ last.res.exc = "none"
        /\ last.res.lexical_only < config.t_high)
    => last.res.score < config.t_high

\* C3 amended: for any config with T_high > 0, if the lexical-only
\* combination is below T_high then the score score_pair returns is below
\* T_high.
C3_SemanticCap ==
    (last.op = "score_pair" /\ last.res.exc = "none" /\ config.t_high > 0
        /\ last.res.lexical_only < config.t_high)
    => last.res.score < config.t_high

\* C3 witness: the semantic term lifted the clamped score to T_high or
\* above, the lexical-only combination is below it, and the cap applied.
C3_Witness ==
    /\ last.op = "score_pair"
    /\ last.res.exc = "none"
    /\ config.t_high = 920
    /\ last.res.has_semantic
    /\ last.res.lexical_only < config.t_high
    /\ last.res.score0 >= config.t_high
    /\ last.res.capped
    /\ last.res.score = config.t_high - SemanticCapGap

\* C4: for any pair, cosine and config the score is within [0, 1], also
\* after the semantic cap has set it to T_high - 0.01.
C4_ScoreRange ==
    (last.op = "score_pair" /\ last.res.exc = "none")
    => (0 <= last.res.score /\ last.res.score <= 1000)

(***************************************************************************)
(* The arbiter called directly, as the tests of llm_arbiter call it: any   *)
(* sequence of arbitrate calls, and is_eligible on any state they reach    *)
(* (is_eligible changes nothing, so what can follow it is what can follow  *)
(* the state it was called in: no step is taken from its result).          *)
(***************************************************************************)
ArbiterState ==
    [global_calls |-> global_calls, cache |-> cache, provider_queries |-> provider_queries]

\* Enabled or not, with and without a provider, with and without the
\* both-single-token rule; a cap of 1 is reached within the bound.
ArbiterConfigs ==
    {[DefaultConfig EXCEPT !.llm_enabled = TRUE, !.provider = "present",
                           !.global_call_cap = 1],
     [DefaultConfig EXCEPT !.llm_enabled = TRUE, !.forbid_both_single_token = FALSE],
     DefaultConfig}

\* Pairs handed to arbitrate: two names, so four ordered pairs.
ArbitrateNames == {n_acme_solutions, n_acme_services}

\* Names handed to is_eligible: multi-token, single-token, with numerics.
EligibleNames == {n_acme_solutions, n_acme, n_company_2020, n_company_2021}

\* (score, runner_up_score) handed to is_eligible: no runner-up, a close
\* race, a margin of exactly min_confidence and one just below it.
EligibleScores ==
    {<<800, NoneV>>, <<800, Some(780)>>, <<800, Some(50)>>, <<800, Some(51)>>}

\* The number of arbitrate calls in one behaviour.
MaxArbitrations == 3

IsEligible ==
    \E a \in EligibleNames, b \in EligibleNames, s \in EligibleScores :
        /\ last.op # "is_eligible"
        /\ last' = [op |-> "is_eligible", a |-> a, b |-> b, score |-> s[1],
                    runner_up_score |-> s[2],
                    res |-> is_eligible(a, b, s[1], s[2], config, global_calls)]
        /\ UNCHANGED <<embedding_index, cache_file, config, b_names, global_calls, cache, provider_queries, stats, ops>>

Arbitrate ==
    \E a \in ArbitrateNames, b \in ArbitrateNames, outcome \in ProviderOutcomes :
        /\ ops < MaxArbitrations
        /\ last.op # "is_eligible"
        /\ LET r == arbitrate(ArbiterState, a, b, config, outcome)
           IN /\ global_calls' = r.st.global_calls
              /\ cache' = r.st.cache
              /\ provider_queries' = r.st.provider_queries
              /\ last' = [op |-> "arbitrate", pair |-> <<a.core_string, b.core_string>>,
                          decision |-> r.decision, response |-> r.response,
                          path |-> r.path, before |-> ArbiterState]
        /\ ops' = ops + 1
        /\ UNCHANGED <<embedding_index, cache_file, config, b_names, stats>>

InitArbiter == InitWith(ArbiterConfigs, {<<>>})

NextArbiter == IsEligible \/ Arbitrate

SpecArbiter == InitArbiter /\ [][NextArbiter]_vars

(***************************************************************************)
(* Properties of the arbiter (under SpecArbiter).                          *)
(***************************************************************************)
\* C6: the cache key is the ordered pair of core strings; arbitrating a
\* cached pair returns the decision mapped from the cached response, calls
\* no provider and leaves the call counter alone; the provider is queried at
\* most once per ordered pair, and a pair not yet queried is queried even if
\* the reversed pair is cached.
C6_ArbiterCaching ==
    /\ DOMAIN cache = DOMAIN provider_queries
    /\ \A p \in DOMAIN provider_queries : provider_queries[p] = 1
    /\ last.op = "arbitrate" =>
         /\ last.pair \in DOMAIN last.before.cache =>
              /\ last.response = last.before.cache[last.pair]
              /\ last.decision = map_response(last.response, config)
              /\ ArbiterState = last.before
         /\ (last.pair \notin DOMAIN last.before.provider_queries
             /\ config.provider # "none") =>
              /\ last.pair \in DOMAIN provider_queries
              /\ \A p \in DOMAIN last.before.provider_queries :
                    provider_queries[p] = last.before.provider_queries[p]

\* C6 witness: a pair and its reversal were each queried once, and the last
\* call was answered from the cache.
C6_Witness ==
    /\ last.op = "arbitrate"
    /\ last.path = "cache_hit"
    /\ last.pair[1] # last.pair[2]
    /\ DOMAIN provider_queries = {last.pair, <<last.pair[2], last.pair[1]>>}
    /\ global_calls = 2

IsFailure(path) == path \in {"parse_error", "error", "no_provider"}

C8_ResponseMapping ==
    last.op = "arbitrate" =>
        LET sure == last.response.confidence >= config.min_confidence
        IN last.decision =
             (IF last.response.decision = "SAME" /\ sure THEN "MATCH"
              ELSE IF last.response.decision = "DIFFERENT" /\ sure THEN "NO_MATCH"
              ELSE "REVIEW")

\* C8 witness: a cached DIFFERENT with confidence exactly min_confidence is
\* mapped to NO_MATCH.
C8_Witness ==
    /\ last.op = "arbitrate"
    /\ last.path = "cache_hit"
    /\ last.response.decision = "DIFFERENT"
    /\ last.response.confidence = config.min_confidence
    /\ last.decision = "NO_MATCH"

\* C9: is_eligible is true exactly when the arbiter is enabled, a and b do
\* not both have non-empty differing numeric sets, at least one has two or
\* more core tokens, the runner-up is absent or score - runner_up is below
\* min_confidence, the call counter is below global_call_cap and, with
\* forbid_both_single_token set, a and b are not both single-token.
C9_Eligibility ==
    last.op = "is_eligible" =>
        LET a == last.a
            b == last.b
            a_nums == Range(a.numeric_tokens)
            b_nums == Range(b.numeric_tokens)
        IN last.res =
             (/\ config.llm_enabled
              /\ ~(a_nums # {} /\ b_nums # {} /\ a_nums # b_nums)
              /\ (Len(a.core_tokens) >= 2 \/ Len(b.core_tokens) >= 2)
              /\ (last.runner_up_score = NoneV
                  \/ last.score - Val(last.runner_up_score) < config.min_confidence)
              /\ global_calls < config.global_call_cap
              /\ (config.forbid_both_single_token =>
                    ~(Len(a.core_tokens) = 1 /\ Len(b.core_tokens) = 1)))

\* C9 witness: with one call left under the cap, a pair with a single-token
\* side and a margin just below min_confidence is eligible.
C9_Witness ==
    /\ last.op = "is_eligible"
    /\ last.res
    /\ Len(last.a.core_tokens) = 1
    /\ last.runner_up_score # NoneV
    /\ last.score - Val(last.runner_up_score) = config.min_confidence - 1
    /\ global_calls + 1 = config.global_call_cap

(***************************************************************************)
(* The matcher: any sequence of match_one calls on a preprocessed B list,  *)
(* interleaved with a caller that uses the matcher's arbiter the way       *)
(* match_one means to: is_eligible first, arbitrate only after it returned *)
(* true.                                                                   *)
(***************************************************************************)
\* The arbiter off (the default); on with a provider and a cap of 2 over the
\* top 2; on with the thresholds of test_margin_rule and a cap of 1; on
\* without a provider and with the cap of test_global_cap_reached_not_eligible.
MatcherConfigs ==
    {DefaultConfig,
     [DefaultConfig EXCEPT !.llm_enabled = TRUE, !.provider = "present",
                           !.global_call_cap = 2, !.top_k = 2],
     [DefaultConfig EXCEPT !.llm_enabled = TRUE, !.provider = "present",
                           !.global_call_cap = 1, !.t_high = 850, !.margin = 100],
     [DefaultConfig EXCEPT !.llm_enabled = TRUE, !.global_call_cap = 0]}

\* The B lists handed to preprocess_b.
BLists ==
    {<<n_acme_solutions, n_acme_services>>,
     <<n_acme_solutions, n_intl_bm>>}

\* The A names handed to match_one.
Queries == {n_acme_solutions, n_acme, n_ibm, n_zzz}

\* WRatio / 100 for the pairs match_one scores: close, equal.
MatchFuzzyValues == {800, 1000}

\* The number of calls (match_one, arbitrate) in one behaviour.
MaxCalls == 3

\* match_one(a_name): the whole call. An exception that escapes leaves the
\* arbiter and the stats as the call had changed them up to there.
MatchOne ==
    \E a \in Queries, fuzzy \in [1..Len(b_names) -> MatchFuzzyValues] :
        /\ ops < MaxCalls
        /\ \E r \in {match_one(a, b_names, config, ArbiterState, stats, NoneV, fuzzy,
                               [i \in 1..Len(b_names) |-> NoneV],
                               [i \in 1..config.top_k |-> [kind |-> "raise"]])} :
              /\ global_calls' = r.st.global_calls
              /\ cache' = r.st.cache
              /\ provider_queries' = r.st.provider_queries
              /\ stats' = r.stats
              /\ last' = [op |-> "match_one", a |-> a, fuzzy |-> fuzzy, res |-> r,
                          before |-> ArbiterState, stats0 |-> stats]
        /\ ops' = ops + 1
        /\ UNCHANGED <<embedding_index, cache_file, config, b_names>>

\* if arbiter.is_eligible(a, b, scored, runner_up): arbiter.arbitrate(a, b,
\* scored, runner_up), with positional arguments.
ArbitrateIfEligible ==
    \E a \in ArbitrateNames, b \in ArbitrateNames, outcome \in ProviderOutcomes :
        /\ ops < MaxCalls
        /\ \E s \in EligibleScores : is_eligible(a, b, s[1], s[2], config, global_calls)
        /\ \E r \in {arbitrate(ArbiterState, a, b, config, outcome)} :
              /\ global_calls' = r.st.global_calls
              /\ cache' = r.st.cache
              /\ provider_queries' = r.st.provider_queries
              /\ last' = [op |-> "arbitrate", pair |-> <<a.core_string, b.core_string>>,
                          decision |-> r.decision, response |-> r.response,
                          path |-> r.path, before |-> ArbiterState]
        /\ ops' = ops + 1
        /\ UNCHANGED <<embedding_index, cache_file, config, b_names, stats>>

Init == InitWith(MatcherConfigs, BLists)

Next == MatchOne \/ ArbitrateIfEligible

Spec == Init /\ [][Next]_vars

(***************************************************************************)
(* Properties of match_one (under Spec).                                   *)
(***************************************************************************)
\* Some candidate among the top K of a scored list passes the gate when the
\* arbiter has made calls calls.
some_eligible(a, scored, calls) ==
    LET top_k == Take(scored, config.top_k)
        sc_runner == IF Len(top_k) > 1 THEN Some(top_k[2].score) ELSE NoneV
    IN \E i \in 1..Len(top_k) :
          is_eligible(a, b_names[top_k[i].b_id], top_k[i].score, sc_runner, config, calls)

\* C1: a result with used_llm = true had the pre-arbiter decision REVIEW; a
\* pre-arbiter MATCH or NO_MATCH is returned as it is, with used_llm false
\* and the arbiter neither asked nor changed; with the arbiter disabled
\* used_llm is false and the arbiter is never asked.
C1_ArbiterConfinement ==
    last.op = "match_one" =>
        LET r == last.res
        IN /\ (r.exc = "none" /\ r.used_llm) => r.pre = "REVIEW"
           /\ r.pre \in {"MATCH", "NO_MATCH"} =>
                /\ r.exc = "none"
                /\ r.decision = r.pre
                /\ ~r.used_llm
                /\ r.attempts = 0
                /\ ArbiterState = last.before
           /\ ~config.llm_enabled =>
                (~r.used_llm /\ r.attempts = 0 /\ ArbiterState = last.before)

\* C1 witness: with the arbiter enabled and a top candidate that passes the
\* gate, the bands decided MATCH and the result is that MATCH, used_llm
\* false, no arbitration attempted.
C1_Witness ==
    /\ last.op = "match_one"
    /\ config.llm_enabled
    /\ last.res.exc = "none"
    /\ last.res.pre = "MATCH"
    /\ last.res.decision = "MATCH"
    /\ ~last.res.used_llm
    /\ last.res.attempts = 0
    /\ some_eligible(last.a, last.res.scored, last.before.global_calls)

\* C5: the global call counter never exceeds global_call_cap; once it has
\* reached the cap is_eligible is false for every pair and every score, and
\* match_one attempts no arbitration.
C5_GlobalCap ==
    /\ global_calls <= config.global_call_cap
    /\ global_calls >= config.global_call_cap =>
         \A a \in EligibleNames, b \in EligibleNames, s \in EligibleScores :
            ~is_eligible(a, b, s[1], s[2], config, global_calls)
    /\ (last.op = "match_one" /\ last.before.global_calls >= config.global_call_cap) =>
         last.res.attempts = 0

\* C5 witness: the counter has reached a cap of at least one, and a
\* match_one whose bands decided REVIEW, whose top candidates would pass the
\* gate with no calls made, attempted no arbitration and returned REVIEW.
C5_Witness ==
    /\ last.op = "match_one"
    /\ config.global_call_cap > 0
    /\ global_calls = config.global_call_cap
    /\ last.res.exc = "none"
    /\ last.res.pre = "REVIEW"
    /\ last.res.decision = "REVIEW"
    /\ last.res.attempts = 0
    /\ some_eligible(last.a, last.res.scored, 0)

\* C10: when the bands decided REVIEW and the arbiter is enabled, match_one
\* returns a result after at most K arbitrations; either an eligible
\* candidate among the top K was arbitrated to a non-REVIEW decision, and the
\* result carries that decision and that candidate with used_llm = true, or
\* the result is REVIEW with the originally best candidate and used_llm =
\* false.
C10_ArbitrationOrder ==
    (last.op = "match_one" /\ config.llm_enabled /\ last.res.pre = "REVIEW") =>
        LET r == last.res
            top_k == Take(r.scored, config.top_k)
        IN /\ r.exc = "none"
           /\ r.attempts <= config.top_k
           /\ r.used_llm =>
                /\ r.pos \in 1..Len(top_k)
                /\ r.decision # "REVIEW"
                /\ r.score = top_k[r.pos].score
           /\ ~r.used_llm =>
                /\ r.decision = "REVIEW"
                /\ r.score = r.scored[1].score

\* C11: when the arbiter is enabled, the bands decided REVIEW and a top-K
\* candidate passes the gate, match_one returns a MatchResult (no exception
\* escapes), and the decision is REVIEW unless an arbitration overrode it
\* (every attempt that fails leaves REVIEW).
C11_ArbiterFailuresNonFatal ==
    (/\ last.op = "match_one"
     /\ config.llm_enabled
     /\ last.res.pre = "REVIEW"
     /\ some_eligible(last.a, last.res.scored, last.before.global_calls)) =>
        /\ last.res.exc = "none"
        /\ ~last.res.used_llm => last.res.decision = "REVIEW"

\* What retrieve_candidates returned in the last match_one call.
last_retrieved == retrieve_candidates(last.a, NoneV, b_names, config)

\* C12: when retrieval returns the empty list, match_one returns NO_MATCH
\* with reasons [no_candidates], score 0, no b, used_llm false; nothing is
\* scored (comparisons unchanged, no scored candidate) and the arbiter is
\* neither asked nor changed.
C12_NoCandidates ==
    (/\ last.op = "match_one"
     /\ last_retrieved.exc = "none"
     /\ last_retrieved.candidates = <<>>) =>
        /\ last.res.exc = "none"
        /\ last.res.decision = "NO_MATCH"
        /\ last.res.reasons = "no_candidates"
        /\ last.res.score = 0
        /\ last.res.b_id = NoneV
        /\ ~last.res.used_llm
        /\ last.res.scored = <<>>
        /\ last.res.attempts = 0
        /\ stats.comparisons = last.stats0.comparisons
        /\ stats.no_candidates = last.stats0.no_candidates + 1
        /\ ArbiterState = last.before

\* C12 witness: with the arbiter enabled and a non-empty B, a query that
\* shares no key with B got the no_candidates result after an earlier call
\* that scored candidates.
C12_Witness ==
    /\ last.op = "match_one"
    /\ config.llm_enabled
    /\ last_retrieved.candidates = <<>>
    /\ last.res.reasons = "no_candidates"
    /\ last.res.decision = "NO_MATCH"
    /\ stats.comparisons > 0
    /\ stats.no_candidates = 1

\* What the last match_one call yields on a matcher whose arbiter has made
\* no call and cached nothing (same config, same B, same a, same WRatio).
fresh_match_one ==
    match_one(last.a, b_names, config,
              [global_calls |-> 0, cache |-> <<>>, provider_queries |-> <<>>],
              ZeroStats, NoneV, last.fuzzy, [i \in 1..Len(b_names) |-> NoneV],
              [i \in 1..config.top_k |-> [kind |-> "raise"]])

\* What a caller of match_one observes: the exception or the decision, b_id
\* and score of the result.
observed(r) == <<r.exc, r.decision, r.b_id, r.score>>

BandConfigs ==
    {[DefaultConfig EXCEPT !.embedding_enabled = TRUE, !.w_fuzzy = 0,
                           !.t_high = 450, !.margin = 400],
     [DefaultConfig EXCEPT !.embedding_enabled = TRUE],
     DefaultConfig,
     [DefaultConfig EXCEPT !.t_high = 850, !.margin = 100]}

\* The B lists of the bands: those of the matcher, the single name
\* "International Business Machines Corp" (normalized to the core tokens and
\* acronym of n_intl_bm), and a list of single-token names.
BandBLists == BLists \cup {<<n_intl_bm>>, <<n_ibm, n_acme>>}

\* The larger values of T_high.
RaisedTHighs == {600, 920, 1000}

\* cosine_similarity for the pairs scored.
BandCosines == {Some(0), Some(500), Some(1000)}

\* EmbeddingIndex.query: the b_ids by descending cosine (ties in id order).
RECURSIVE by_cosine(_, _)
by_cosine(ids, cosine) ==
    IF ids = {} THEN <<>>
    ELSE LET top == CHOOSE i \in ids :
                      \A j \in ids : Val(cosine[i]) > Val(cosine[j])
                                     \/ (Val(cosine[i]) = Val(cosine[j]) /\ i <= j)
         IN <<top>> \o by_cosine(ids \ {top}, cosine)

\* match_one on a matcher whose arbiter was never used, under cfg.
bands_of(a, cfg, fuzzy, cosine) ==
    match_one(a, b_names, cfg,
              [global_calls |-> 0, cache |-> <<>>, provider_queries |-> <<>>],
              ZeroStats,
              IF cfg.embedding_enabled
              THEN Some(by_cosine(1..Len(b_names), cosine)) ELSE NoneV,
              fuzzy, cosine, [i \in 1..cfg.top_k |-> [kind |-> "raise"]])

PreDecision ==
    \E a \in Queries, fuzzy \in [1..Len(b_names) -> FuzzyValues],
       cosine \in [1..Len(b_names) -> BandCosines], t \in RaisedTHighs :
        /\ last.op = "init"
        /\ t > config.t_high
        /\ \E r \in {bands_of(a, config, fuzzy, cosine)},
              raised \in {bands_of(a, [config EXCEPT !.t_high = t], fuzzy, cosine)} :
              last' = [op |-> "bands", a |-> a, t_raised |-> t,
                       exc |-> r.exc, pre |-> r.pre, scored |-> r.scored,
                       decision |-> r.decision, b_id |-> r.b_id,
                       attempts |-> r.attempts,
                       exc_raised |-> raised.exc, pre_raised |-> raised.pre,
                       scored_raised |-> raised.scored]
        /\ UNCHANGED <<embedding_index, cache_file, config, b_names, global_calls, cache, provider_queries, stats, ops>>

InitBands == InitWith(BandConfigs, BandBLists)

NextBands == PreDecision

SpecBands == InitBands /\ [][NextBands]_vars

\* C14: if the pre-arbiter decision of match_one under T_high is NO_MATCH or
\* REVIEW, its pre-arbiter decision under a larger T_high (same B, same a,
\* same cosines, all other config equal) is not MATCH.
C14_MonotoneInTHigh ==
    (last.op = "bands" /\ last.pre \in {"NO_MATCH", "REVIEW"}) =>
        last.pre_raised # "MATCH"

(***************************************************************************)
(* normalize.py, designators.py, acronyms.py: the normalization pipeline   *)
(* on text. A string is a sequence of one-character strings; the strings   *)
(* checked are ASCII, on which NFKC changes nothing and casefold is        *)
(* lower-casing.                                                           *)
(***************************************************************************)
Lower == <<"a", "b", "c", "d", "e", "f", "g", "h", "i", "j", "k", "l", "m",
           "n", "o", "p", "q", "r", "s", "t", "u", "v", "w", "x", "y", "z">>

Upper == <<"A", "B", "C", "D", "E", "F", "G", "H", "I", "J", "K", "L", "M",
           "N", "O", "P", "Q", "R", "S", "T", "U", "V", "W", "X", "Y", "Z">>

\* str.casefold, one character at a time.
casefold_char(c) ==
    IF \E i \in 1..Len(Upper) : Upper[i] = c
    THEN Lower[CHOOSE i \in 1..Len(Upper) : Upper[i] = c]
    ELSE c

casefold(s) == [i \in 1..Len(s) |-> casefold_char(s[i])]

\* str.isalpha and str.isupper.
isalpha(s) == s # <<>> /\ \A i \in 1..Len(s) : s[i] \in Range(Lower) \cup Range(Upper)

isupper(s) ==
    /\ \E i \in 1..Len(s) : s[i] \in Range(Upper)
    /\ \A i \in 1..Len(s) : s[i] \notin Range(Lower)

\* The characters the regular expression class \w matches.
WordChars == Range(Lower) \cup Range(Upper) \cup Digits \cup {"_"}

\* The characters str.split() and \s treat as white space.
Whitespace == {" "}

\* re.sub(r"[^\w]", "", t)
without_punctuation(t) == SelectSeq(t, LAMBDA c : c \in WordChars)

\* The maximal runs of characters outside seps, in order, empty runs dropped:
\* str.split() for seps = Whitespace, and the non-empty parts of
\* re.split(r"[.\s]+", text) for seps = Whitespace \cup {"."}.
RECURSIVE split_on(_, _, _)
split_on(chars, seps, run) ==
    IF chars = <<>> THEN (IF run = <<>> THEN <<>> ELSE <<run>>)
    ELSE IF Head(chars) \in seps
    THEN (IF run = <<>> THEN <<>> ELSE <<run>>) \o split_on(Tail(chars), seps, <<>>)
    ELSE split_on(Tail(chars), seps, Append(run, Head(chars)))

split(s) == split_on(s, Whitespace, <<>>)

\* str.replace(old, new) for a non-empty old.
RECURSIVE replace(_, _, _)
replace(s, old, new) ==
    IF Len(s) < Len(old) THEN s
    ELSE IF SubSeq(s, 1, Len(old)) = old
    THEN new \o replace(SubSeq(s, Len(old) + 1, Len(s)), old, new)
    ELSE <<Head(s)>> \o replace(Tail(s), old, new)

\* replacements.json, in order: "&" becomes " and " (test_ampersand_replacement).
REPLACEMENTS == <<[old |-> <<"&">>, new |-> <<" ", "a", "n", "d", " ">>]>>

RECURSIVE apply_replacements(_, _)
apply_replacements(s, replacements) ==
    IF replacements = <<>> THEN s
    ELSE apply_replacements(replace(s, Head(replacements).old, Head(replacements).new),
                            Tail(replacements))

\* designator_aliases.json: ALIASES.get(token, token), aliases being a
\* function from the alias keys to their canonical tokens.
canonicalize_token(token, aliases) ==
    IF token \in DOMAIN aliases THEN aliases[token] ELSE token

\* Steps 4 and 5 of normalize on the white-space split: an alias match
\* replaces the token, any other token loses its punctuation and is dropped
\* when nothing remains.
RECURSIVE canonical_tokens(_, _)
canonical_tokens(raw_split, aliases) ==
    IF raw_split = <<>> THEN <<>>
    ELSE LET t == Head(raw_split)
             canonical == canonicalize_token(t, aliases)
             cleaned == without_punctuation(t)
         IN (IF canonical # t THEN <<canonical>>
             ELSE IF cleaned # <<>> THEN <<cleaned>> ELSE <<>>)
            \o canonical_tokens(Tail(raw_split), aliases)

\* Steps 1 to 7 of normalize: raw_tokens.
raw_tokens_of(name, aliases) ==
    canonical_tokens(split(apply_replacements(casefold(name), REPLACEMENTS)), aliases)

\* <category>.txt for the categories a config may name.
tok_germany == <<"g", "e", "r", "m", "a", "n", "y">>

load_category_words(category) ==
    IF category = "location" THEN {tok_germany} ELSE {}

\* The index where the trailing run of designators starts (Len + 1: none).
RECURSIVE suffix_start_of(_, _)
suffix_start_of(tokens, i) ==
    IF i >= 1 /\ is_designator(tokens[i]) THEN suffix_start_of(tokens, i - 1) ELSE i + 1

\* The length of the leading run of designators.
RECURSIVE prefix_end_of(_, _)
prefix_end_of(tokens, i) ==
    IF i <= Len(tokens) /\ is_designator(tokens[i]) THEN prefix_end_of(tokens, i + 1)
    ELSE i - 1

\* The tokens at the positions in keep, in order.
RECURSIVE tokens_at(_, _, _)
tokens_at(tokens, keep, i) ==
    IF i > Len(tokens) THEN <<>>
    ELSE (IF i \in keep THEN <<tokens[i]>> ELSE <<>>) \o tokens_at(tokens, keep, i + 1)

\* The split of strip_designators into core and removed tokens, before its
\* safety revert (min_tokens not used).
strip_designators_no_revert(tokens, strip_prefix, min_tokens) ==
    LET suffix_start == suffix_start_of(tokens, Len(tokens))
        prefix_end == IF strip_prefix THEN prefix_end_of(tokens, 1) ELSE 0
        kept == {i \in 1..Len(tokens) : i > prefix_end /\ i < suffix_start}
    IN [core |-> tokens_at(tokens, kept, 1),
        removed |-> tokens_at(tokens, (1..Len(tokens)) \ kept, 1)]

\* strip_designators(tokens, strip_prefix=..., min_tokens=...).
strip_designators(tokens, strip_prefix, min_tokens) ==
    LET suffix_start == suffix_start_of(tokens, Len(tokens))
        prefix_end == IF strip_prefix THEN prefix_end_of(tokens, 1) ELSE 0
        kept == {i \in 1..Len(tokens) : i > prefix_end /\ i < suffix_start}
    IN IF Cardinality(kept) < min_tokens
       THEN [core |-> tokens, removed |-> <<>>]
       ELSE [core |-> tokens_at(tokens, kept, 1),
             removed |-> tokens_at(tokens, (1..Len(tokens)) \ kept, 1)]

\* Category stripping without the safety rule that keeps one token.
strip_word_categories_no_revert(tokens, categories) ==
    LET category_words == UNION {load_category_words(categories[i]) : i \in 1..Len(categories)}
        kept == {i \in 1..Len(tokens) : casefold(tokens[i]) \notin category_words}
    IN IF categories = <<>>
       THEN [filtered |-> tokens, removed |-> <<>>]
       ELSE [filtered |-> tokens_at(tokens, kept, 1),
             removed |-> tokens_at(tokens, (1..Len(tokens)) \ kept, 1)]

\* strip_word_categories(tokens, categories).
strip_word_categories(tokens, categories) ==
    LET category_words == UNION {load_category_words(categories[i]) : i \in 1..Len(categories)}
        kept == {i \in 1..Len(tokens) : casefold(tokens[i]) \notin category_words}
    IN IF categories = <<>> \/ Cardinality(kept) < 1
       THEN [filtered |-> tokens, removed |-> <<>>]
       ELSE [filtered |-> tokens_at(tokens, kept, 1),
             removed |-> tokens_at(tokens, (1..Len(tokens)) \ kept, 1)]

\* max_iterations of step 9b.
max_iterations == 10

\* One iteration of the loop of step 9b on the state s of the loop
\* (core_tokens, removed_designators, removed_categories).
strip_iteration(s, cfg) ==
    LET cats == strip_word_categories(s.core_tokens, cfg.strip_categories)
        des == strip_designators(cats.filtered, cfg.strip_prefix_designators, 1)
    IN [core_tokens |-> des.core,
        removed_designators |-> s.removed_designators \o des.removed,
        removed_categories |-> s.removed_categories \o cats.removed]

\* Step 9b without its loop: the tokens of steps 8 and 9 are kept.
strip_loop_skipped(s, cfg, n) == s

\* The loop of step 9b: at most n more iterations, stopping after the first
\* one that leaves core_tokens unchanged.
RECURSIVE strip_loop(_, _, _)
strip_loop(s, cfg, n) ==
    IF n = 0 THEN s
    ELSE LET next == strip_iteration(s, cfg)
         IN IF next.core_tokens = s.core_tokens THEN next
            ELSE strip_loop(next, cfg, n - 1)

\* Steps 8, 9 and 9b of normalize with the loop of step 9b run whatever
\* strip_categories holds.
core_of_always_loops(tokens, cfg) ==
    LET stripped == strip_designators(tokens, cfg.strip_prefix_designators, 2)
        reverted == Len(stripped.core) < 2 /\ stripped.removed # <<>>
        s == [core_tokens |-> IF reverted THEN tokens ELSE stripped.core,
              removed_designators |-> IF reverted THEN <<>> ELSE stripped.removed,
              removed_categories |-> <<>>]
        looped == strip_loop(s, cfg, max_iterations)
    IN [core_tokens |-> looped.core_tokens,
        removed_designators |-> looped.removed_designators,
        removed_categories |-> looped.removed_categories,
        warnings |-> IF reverted THEN <<"designator_strip_reverted_short_core">> ELSE <<>>]

\* Steps 8, 9 and 9b of normalize: core_tokens and the removed words.
core_of(tokens, cfg) ==
    LET stripped == strip_designators(tokens, cfg.strip_prefix_designators, 2)
        reverted == Len(stripped.core) < 2 /\ stripped.removed # <<>>
        s == [core_tokens |-> IF reverted THEN tokens ELSE stripped.core,
              removed_designators |-> IF reverted THEN <<>> ELSE stripped.removed,
              removed_categories |-> <<>>]
        looped == IF cfg.strip_categories # <<>> THEN strip_loop(s, cfg, max_iterations)
                  ELSE s
    IN [core_tokens |-> looped.core_tokens,
        removed_designators |-> looped.removed_designators,
        removed_categories |-> looped.removed_categories,
        warnings |-> IF reverted THEN <<"designator_strip_reverted_short_core">> ELSE <<>>]

\* generate_acronym(core_tokens, config.acronym)
generate_acronym(core_tokens, cfg) ==
    IF Len(core_tokens) < cfg.min_length THEN NoneV
    ELSE IF Len(Initials(core_tokens)) < cfg.min_length THEN NoneV
    ELSE Some(Initials(core_tokens))

\* normalize_acronym_input(text): single letters separated by dots or spaces.
normalize_acronym_input(text) ==
    LET parts == split_on(text, Whitespace \cup {"."}, <<>>)
        cleaned == Flatten(parts)
    IN IF Len(cleaned) >= 3 /\ isalpha(cleaned)
          /\ \A i \in 1..Len(parts) : Len(parts[i]) = 1
       THEN Some(casefold(cleaned)) ELSE NoneV

\* original.strip().replace(".", "").isupper()
original_isupper(original) == isupper(SelectSeq(original, LAMBDA c : c # "."))

\* Step 11 of normalize: the acronym.
acronym_of(original, core_tokens, cfg) ==
    LET acronym_from_input == normalize_acronym_input(original)
        generated == IF Truthy(acronym_from_input) THEN acronym_from_input
                     ELSE generate_acronym(core_tokens, cfg)
    IN IF generated = NoneV /\ Len(core_tokens) = 1
          /\ isalpha(core_tokens[1]) /\ Len(core_tokens[1]) >= cfg.min_length
          /\ original_isupper(original)
       THEN Some(core_tokens[1]) ELSE generated

\* normalize(name, config) under the alias map of cfg.
normalize(name, cfg) ==
    LET tokens == raw_tokens_of(name, cfg.aliases)
        core == core_of(tokens, cfg)
        acronym == acronym_of(name, core.core_tokens, cfg)
    IN [original |-> name,
        raw_tokens |-> tokens,
        core_tokens |-> core.core_tokens,
        core_string |-> JoinTokens(core.core_tokens),
        acronym |-> acronym,
        numeric_tokens |-> extract_numeric_tokens(core.core_tokens),
        keys |-> generate_blocking_keys(core.core_tokens, JoinTokens(core.core_tokens),
                                        acronym),
        removed_designators |-> core.removed_designators,
        removed_categories |-> core.removed_categories,
        warnings |-> core.warnings
                     \o (IF Len(core.core_tokens) = 1 THEN <<"single_token_core">>
                         ELSE <<>>)
                     \o (IF Truthy(acronym) /\ is_collision(casefold(Val(acronym)))
                         THEN <<"collision_acronym">> ELSE <<>>)]

(***************************************************************************)
(* normalize as a pure function: the normalization config and the alias    *)
(* file are drawn at the start, one step normalizes a string drawn from    *)
(* the set below and then normalizes the core_string of the result.        *)
(***************************************************************************)
tok_llc == <<"l", "l", "c">>

tok_incorporated == <<"i", "n", "c", "o", "r", "p", "o", "r", "a", "t", "e", "d">>

\* No alias file; the aliases of test_canonicalize_token ("inc." and "l.l.c");
\* the same with an alias whose key is a plain word.
NoAliases == <<>>

TestAliases ==
    [k \in {tok_inc \o <<".">>, <<"l", ".", "l", ".", "c">>} |->
        IF k = tok_inc \o <<".">> THEN tok_inc ELSE tok_llc]

WordAliases ==
    [k \in DOMAIN TestAliases \cup {tok_incorporated} |->
        IF k = tok_incorporated THEN tok_inc ELSE TestAliases[k]]

AliasMaps == {NoAliases, TestAliases, WordAliases}

NormalizeConfigs ==
    {[strip_prefix_designators |-> p, strip_categories |-> c, min_length |-> 3,
      aliases |-> al] :
        p \in BOOLEAN, c \in {<<>>, <<"location">>}, al \in AliasMaps}

\* The white-space separated words of the strings normalized: nothing, all
\* punctuation, a capitalised word, an upper-case word, a designator, an
\* alias key, a plain-word alias key followed by a comma, a location, "&".
NormWords ==
    {<<>>, <<".">>, <<"A", "p", "p", "l", "e">>, <<"I", "B", "M">>, tok_inc,
     tok_inc \o <<".">>, tok_incorporated \o <<",">>, tok_germany, <<"&">>}

\* The largest number of words of a string.
MaxWords == 3

NormStrings ==
    UNION {{JoinTokens(ws) : ws \in [1..n -> NormWords]} : n \in 0..MaxWords}

Normalize ==
    \E s \in NormStrings :
        /\ last.op = "init"
        /\ \E r \in {normalize(s, config)} :
              last' = [op |-> "normalize", s |-> s, res |-> r,
                       again |-> normalize(r.core_string, config)]
        /\ UNCHANGED <<embedding_index, cache_file, config, b_names, global_calls, cache, provider_queries, stats, ops>>

InitNormalize == InitWith(NormalizeConfigs, {<<>>})

NextNormalize == Normalize

SpecNormalize == InitNormalize /\ [][NextNormalize]_vars

\* The number of tokens that stripping the suffix (and, if configured, the
\* prefix) run of designators would leave.
tokens_left(tokens, cfg) ==
    Len(strip_designators_no_revert(tokens, cfg.strip_prefix_designators, 2).core)

\* C15 as stated, for any normalization config: if stripping the designator
\* run from raw_tokens would leave fewer than 2 tokens, normalize returns
\* core_tokens equal to raw_tokens and no removed designators.
C15_SafetyRevertAnyConfig ==
    (last.op = "normalize" /\ tokens_left(last.res.raw_tokens, config) < 2) =>
        /\ last.res.core_tokens = last.res.raw_tokens
        /\ last.res.removed_designators = <<>>

\* C15: with an empty strip_categories list, if stripping the designator run
\* from raw_tokens would leave fewer than 2 tokens, normalize returns
\* core_tokens equal to raw_tokens and no removed designators.
C15_SafetyRevert ==
    (/\ last.op = "normalize"
     /\ config.strip_categories = <<>>
     /\ tokens_left(last.res.raw_tokens, config) < 2) =>
        /\ last.res.core_tokens = last.res.raw_tokens
        /\ last.res.removed_designators = <<>>

\* A designator run was there to strip and the strip was reverted: one plain
\* token followed by a designator, no category configured.
C15_Witness ==
    /\ last.op = "normalize"
    /\ config.strip_categories = <<>>
    /\ Len(last.res.raw_tokens) = 2
    /\ ~is_designator(last.res.raw_tokens[1])
    /\ is_designator(last.res.raw_tokens[2])
    /\ tokens_left(last.res.raw_tokens, config) = 1
    /\ last.res.core_tokens = last.res.raw_tokens

\* C16: normalizing the core_string of a normalized name gives the same core
\* tokens, for every string, config and alias map.
C16_RoundTrip ==
    last.op = "normalize" => last.again.core_tokens = last.res.core_tokens

\* A string of white space and punctuation only (none of it replaced by
\* words).
blank(s) ==
    \A i \in 1..Len(s) :
        /\ s[i] \notin WordChars
        /\ \A j \in 1..Len(REPLACEMENTS) : s[i] \notin Range(REPLACEMENTS[j].old)

\* C17: normalize of an empty, all-punctuation or all-white-space string has
\* empty raw_tokens and core_tokens, no blocking key and no acronym, posts
\* nothing to the index and retrieves no lexical candidate.
C17_EmptyInput ==
    (last.op = "normalize" /\ blank(last.s)) =>
        /\ last.res.raw_tokens = <<>>
        /\ last.res.core_tokens = <<>>
        /\ last.res.acronym = NoneV
        /\ last.res.keys = <<>>
        /\ \A i \in 1..Len(last.res.keys) :
              posting(<<last.res>>, last.res.keys[i], DefaultConfig) = {}
        /\ retrieve_candidates(last.res, NoneV, <<last.res>>, DefaultConfig).candidates = <<>>

(***************************************************************************)
(* BlockingIndex on its own: the candidate config and the list B are drawn *)
(* at the start (build), one step retrieves the candidates of a query name *)
(* with or without embedding candidates (retrieve_candidates changes no    *)
(* state, so one call per behaviour covers every call).                    *)
(***************************************************************************)
\* "Acme Solutions International" and "Acme Solutions International
\* Business": names sharing k_prefix2, k_prefix3 and k_first.
n_acme_solutions_intl ==
    NormalizedName(<<tok_acme, tok_solutions, tok_international>>,
                   Some(<<"a", "s", "i">>))

n_acme_solutions_intl_business ==
    NormalizedName(<<tok_acme, tok_solutions, tok_international, tok_business>>,
                   Some(<<"a", "s", "i", "b">>))

\* Caps of 1 and 2 candidates next to the defaults, k_first on and off.
IndexConfigs ==
    {[DefaultConfig EXCEPT !.max_candidates_lexical = lex, !.max_candidates_total = tot,
                           !.max_candidates_embedding = emb, !.use_k_first = kf] :
        lex \in {1, 2, 300}, tot \in {1, 2, 500}, emb \in {1, 200}, kf \in BOOLEAN}

IndexBLists ==
    {<<n_acme_solutions, n_acme_solutions_intl_business, n_acme_services>>,
     <<n_acme_services, n_acme_solutions_intl, n_acme_solutions_intl_business>>,
     <<n_intl_bm, n_ibm, n_acme>>}

IndexQueries == {n_acme_solutions, n_acme_solutions_intl, n_acme, n_ibm, n_zzz}

\* The largest number of embedding candidates handed to retrieve_candidates.
MaxEmbeddingCandidates == 2

\* embedding_candidates: None, or a list of valid b_ids.
EmbeddingCandidateLists ==
    {NoneV} \cup {Some(ids) : ids \in UNION {[1..n -> 1..Len(b_names)] :
                                             n \in 0..MaxEmbeddingCandidates}}

RetrieveCandidates ==
    \E a \in IndexQueries, embedding_candidates \in EmbeddingCandidateLists :
        /\ last.op = "init"
        /\ \E r \in {retrieve_candidates(a, embedding_candidates, b_names, config)} :
              last' = [op |-> "retrieve", a |-> a,
                       embedding_candidates |-> embedding_candidates,
                       exc |-> r.exc, candidates |-> r.candidates]
        /\ UNCHANGED <<embedding_index, cache_file, config, b_names, global_calls, cache, provider_queries, stats, ops>>

InitIndex == InitWith(IndexConfigs, IndexBLists)

NextIndex == RetrieveCandidates

SpecIndex == InitIndex /\ [][NextIndex]_vars

\* The key types under which the query of the last retrieval and B name b_id
\* share a key that build posts.
shared_key_types(b_id) ==
    {key[1] : key \in {k \in Range(last.a.keys) \cap Range(b_names[b_id].keys) :
                          ~(k[1] = "k_first" /\ ~config.use_k_first)}}

\* The b_ids among the first C_emb embedding candidates of the last retrieval.
embedding_ids ==
    IF last.embedding_candidates = NoneV THEN {}
    ELSE Range(Take(Val(last.embedding_candidates), config.max_candidates_embedding))

\* The b_ids that matched lexically, and every b_id that was a candidate.
lexical_ids == {b_id \in 1..Len(b_names) : shared_key_types(b_id) # {}}

candidate_ids == lexical_ids \cup embedding_ids

\* The b_ids retrieve_candidates returned.
returned_ids == {last.candidates[i].b_id : i \in 1..Len(last.candidates)}

\* The number of sources of a candidate: its shared key types, and the
\* embedding.
source_count(b_id) ==
    Cardinality(shared_key_types(b_id))
    + (IF b_id \in embedding_ids THEN 1 ELSE 0)

\* A cap of cap candidates over the set ids may evict b_id, counting sources
\* by count: it has more than cap members and at least cap others have no
\* fewer sources than b_id.
may_evict(b_id, ids, cap, count(_)) ==
    /\ Cardinality(ids) > cap
    /\ Cardinality({x \in ids \ {b_id} : count(x) >= count(b_id)}) >= cap

lexical_cap_may_evict(b_id) ==
    may_evict(b_id, lexical_ids, config.max_candidates_lexical,
              LAMBDA x : Cardinality(shared_key_types(x)))

total_cap_may_evict(b_id) ==
    may_evict(b_id, candidate_ids, config.max_candidates_total, source_count)

\* C18: for every b in B and every key type other than k_first under which b
\* and the query share a key, retrieve_candidates returns a candidate with
\* b's id whose sources include that key type, unless the lexical cap or the
\* total cap evicted b.
C18_IndexCompleteness ==
    last.op = "retrieve" =>
        \A b_id \in 1..Len(b_names) :
            \A key_type \in shared_key_types(b_id) \ {"k_first"} :
                \/ \E i \in 1..Len(last.candidates) :
                      /\ last.candidates[i].b_id = b_id
                      /\ key_type \in last.candidates[i].sources
                \/ lexical_cap_may_evict(b_id)
                \/ total_cap_may_evict(b_id)

\* C19: retrieve_candidates never raises; it returns the empty list when no
\* posting matches and no embedding candidate is supplied; every embedding
\* candidate among the first C_emb is returned with the source embedding
\* unless the total cap evicted it.
C19_RetrievalTotality ==
    last.op = "retrieve" =>
        /\ last.exc = "none"
        /\ (candidate_ids = {} => last.candidates = <<>>)
        /\ \A b_id \in embedding_ids :
              \/ \E i \in 1..Len(last.candidates) :
                    /\ last.candidates[i].b_id = b_id
                    /\ "embedding" \in last.candidates[i].sources
              \/ total_cap_may_evict(b_id)

\* C20: retrieve_candidates returns distinct b_ids, at most
\* max_candidates_total of them, at most max_candidates_lexical of them with
\* a lexical source, and no candidate left out by a cap has strictly more
\* sources than a returned one.
C20_CandidateCaps ==
    (last.op = "retrieve" /\ last.exc = "none") =>
        /\ \A i, j \in 1..Len(last.candidates) :
              last.candidates[i].b_id = last.candidates[j].b_id => i = j
        /\ Len(last.candidates) <= config.max_candidates_total
        /\ Cardinality({i \in 1..Len(last.candidates) :
                            last.candidates[i].sources \ {"embedding"} # {}})
              <= config.max_candidates_lexical
        /\ \A evicted \in candidate_ids \ returned_ids :
              \A i \in 1..Len(last.candidates) :
                  source_count(evicted) <= Cardinality(last.candidates[i].sources)

\* The lexical cap evicted a candidate that was inserted before a retained
\* one with more sources, and the total cap evicted a candidate too.
C20_Witness ==
    /\ last.op = "retrieve" /\ last.exc = "none"
    /\ Cardinality(lexical_ids) > config.max_candidates_lexical
    /\ Len(last.candidates) = config.max_candidates_total
    /\ \E evicted \in lexical_ids \ returned_ids :
          \E i \in 1..Len(last.candidates) :
              /\ evicted < last.candidates[i].b_id
              /\ source_count(evicted) < Cardinality(last.candidates[i].sources)
    /\ \E evicted \in embedding_ids \ returned_ids : TRUE

\* C21: with B = ["International Business Machines Corp"] and the default
\* config, match_one("IBM") returns MATCH with that B, whatever the fuzzy
\* similarity.
C21_AcronymInitialism ==
    (/\ last.op = "bands"
     /\ config = DefaultConfig
     /\ b_names = <<n_intl_bm>>
     /\ last.a = n_ibm) =>
        /\ last.exc = "none"
        /\ last.decision = "MATCH"
        /\ last.b_id = Some(1)

\* C27: under the default config every scored pair in which a or b has at
\* most one core token scores at most 0.75, and a query with a single core
\* token is decided NO_MATCH without any call to the arbiter.
C27_ShortNameNoMatch ==
    (last.op = "bands" /\ config = DefaultConfig /\ last.exc = "none") =>
        /\ \A i \in 1..Len(last.scored) :
              (\/ Len(last.a.core_tokens) <= 1
               \/ Len(b_names[last.scored[i].b_id].core_tokens) <= 1)
                  => last.scored[i].score <= 750
        /\ Len(last.a.core_tokens) <= 1 =>
              /\ last.decision = "NO_MATCH"
              /\ last.b_id = NoneV
              /\ last.attempts = 0

\* A single-token query scored 0.75 against the identical B name and was
\* decided NO_MATCH.
C27_Witness ==
    /\ last.op = "bands" /\ config = DefaultConfig /\ last.exc = "none"
    /\ last.a = n_ibm
    /\ b_names[1] = n_ibm
    /\ last.scored # <<>>
    /\ last.scored[1].b_id = 1
    /\ last.scored[1].score = 750
    /\ last.decision = "NO_MATCH"

\* C28: in every MatchResult match_one returns, b_id is set if and only if
\* the decision is MATCH, and a b_id that is set is an index into the
\* preprocessed B list.
C28_CandidateIffMatch ==
    (last.op = "match_one" /\ last.res.exc = "none") =>
        /\ (last.res.b_id # NoneV) <=> (last.res.decision = "MATCH")
        /\ last.res.b_id # NoneV => Val(last.res.b_id) \in 1..Len(b_names)

\* A MATCH naming the first B name was returned after an earlier call that
\* returned another decision.
C28_Witness ==
    /\ last.op = "match_one" /\ last.res.exc = "none"
    /\ last.res.scored # <<>>
    /\ last.res.decision = "MATCH" /\ last.res.b_id = Some(1)
    /\ stats.decisions["NO_MATCH"] + stats.decisions["REVIEW"] > 0

\* The sum of the decision histogram.
decisions_total(s) ==
    s.decisions["MATCH"] + s.decisions["NO_MATCH"] + s.decisions["REVIEW"]

\* C30: every match_one call that returns increments exactly the bucket of
\* its decision in stats.decisions, increments llm_overrides exactly when
\* used_llm is set, and increments no_candidates only with NO_MATCH; so the
\* histogram never exceeds the number of calls and no_candidates never
\* exceeds decisions[NO_MATCH].
C30_StatsConsistent ==
    /\ stats.no_candidates <= stats.decisions["NO_MATCH"]
    /\ decisions_total(stats) <= ops
    /\ (last.op = "match_one" /\ last.res.exc = "none") =>
          /\ stats.decisions =
                [last.stats0.decisions EXCEPT ![last.res.decision] = @ + 1]
          /\ stats.llm_overrides =
                last.stats0.llm_overrides + (IF last.res.used_llm THEN 1 ELSE 0)
          /\ stats.no_candidates - last.stats0.no_candidates \in {0, 1}
          /\ stats.no_candidates > last.stats0.no_candidates =>
                last.res.decision = "NO_MATCH"

\* Three calls returned, one of them without candidates, and the histogram
\* counts the three.
C30_Witness ==
    /\ last.op = "match_one" /\ last.res.exc = "none"
    /\ decisions_total(stats) = 3
    /\ stats.no_candidates = 1
    /\ stats.decisions["NO_MATCH"] >= 1
    /\ stats.decisions["MATCH"] >= 1

\* C22: whenever normalize produces a non-empty raw_tokens list, core_tokens
\* is non-empty, with or without prefix stripping and category stripping.
C22_NonEmptyCore ==
    (last.op = "normalize" /\ last.res.raw_tokens # <<>>) =>
        last.res.core_tokens # <<>>

\* A name made only of category words and designators was normalized with
\* category stripping configured, and its tokens were kept.
C22_Witness ==
    /\ last.op = "normalize"
    /\ config.strip_categories # <<>>
    /\ last.res.raw_tokens # <<>>
    /\ \A i \in 1..Len(last.res.raw_tokens) :
          last.res.raw_tokens[i] \in DESIGNATORS \cup {tok_germany}
    /\ \E i \in 1..Len(last.res.raw_tokens) : last.res.raw_tokens[i] = tok_germany
    /\ last.res.core_tokens # <<>>

\* C29: with category stripping configured, the core_tokens normalize returns
\* are unchanged by one more pass of category stripping followed by
\* designator stripping with min_tokens = 1.
C29_StripFixedPoint ==
    (last.op = "normalize" /\ config.strip_categories # <<>>) =>
        strip_iteration([core_tokens |-> last.res.core_tokens,
                         removed_designators |-> <<>>,
                         removed_categories |-> <<>>], config).core_tokens
            = last.res.core_tokens

\* The loop removed a category word and then a designator it exposed.
C29_Witness ==
    /\ last.op = "normalize"
    /\ config.strip_categories # <<>>
    /\ last.res.removed_categories # <<>>
    /\ last.res.removed_designators # <<>>
    /\ last.res.raw_tokens[Len(last.res.raw_tokens)] = tok_germany
    /\ Len(last.res.core_tokens) < Len(last.res.raw_tokens) - 1

(***************************************************************************)
(* Acronyms: normalize under acronym configurations other than the default *)
(* on names with words that start with a digit and names spelled as single *)
(* letters.                                                                *)
(***************************************************************************)
\* AcronymConfig(min_length=2 | 3 | 4) in an otherwise default configuration.
AcronymConfigs ==
    {[strip_prefix_designators |-> FALSE, strip_categories |-> <<>>,
      min_length |-> ml, aliases |-> al] : ml \in {2, 3, 4}, al \in {NoAliases, TestAliases}}

\* The white-space separated words of the names: a word starting with a
\* digit, plain words, dotted and undotted initials, a single letter, a
\* designator.
AcronymWords ==
    {<<"3", "M">>, <<"D", "a", "t", "a">>, <<"S", "y", "s", "t", "e", "m", "s">>,
     <<"I", ".", "B", ".", "M", ".">>, <<"I", "B", "M">>, <<"I">>, tok_inc}

\* The largest number of words of a name.
MaxAcronymWords == 3

AcronymStrings ==
    UNION {{JoinTokens(ws) : ws \in [1..n -> AcronymWords]} : n \in 0..MaxAcronymWords}

NormalizeAcronym ==
    \E s \in AcronymStrings :
        /\ last.op = "init"
        /\ \E r \in {normalize(s, config)} :
              last' = [op |-> "acronym", s |-> s, res |-> r]
        /\ UNCHANGED <<embedding_index, cache_file, config, b_names, global_calls, cache, provider_queries, stats, ops>>

InitAcronym == InitWith(AcronymConfigs, {<<>>})

NextAcronym == NormalizeAcronym

SpecAcronym == InitAcronym /\ [][NextAcronym]_vars

\* C23: whenever normalize returns a non-null acronym, its length is at
\* least the configured min_length and every character of it is alphabetic.
C23_AcronymWellFormed ==
    (last.op = "acronym" /\ last.res.acronym # NoneV) =>
        /\ Len(Val(last.res.acronym)) >= config.min_length
        /\ isalpha(Val(last.res.acronym))

(***************************************************************************)
(* The embedding index and the arbiter within one run: build, precompute,  *)
(* query, cosine_similarity and arbitrate calls in any order, the provider *)
(* of the embeddings raising on any of its calls.                          *)
(***************************************************************************)
\* EmbeddingConfig: one text per request and one neighbour, two texts per
\* request and the default number of neighbours.
EmbeddingConfigs ==
    {[batch_size |-> 1, ann_neighbors |-> 1], [batch_size |-> 2, ann_neighbors |-> 100]}

\* The lists handed to build and precompute.
CoreStringLists == {<<t_acme, t_ibm>>, <<t_ibm, t_zzz, t_acme>>, <<t_zzz>>}

\* The texts handed to query and the pairs handed to cosine_similarity.
QueryStrings == {t_acme, t_ibm, t_zzz}

CosinePairs == {<<t_acme, t_ibm>>, <<t_zzz, t_acme>>, <<t_ibm, t_ibm>>}

\* The embed_batch call of one operation that raises: none, or one of the
\* at most three calls.
FailAts == {0, 1, 2, 3}

\* embedding_cache.json at the start of the run: absent, or left by an
\* earlier run.
CacheFiles == {NoneV, Some(put(<<>>, t_ibm, embed(t_ibm)))}

\* The provider answers of the arbitrate calls of the run.
RunOutcomes ==
    {[kind |-> "raise"], [kind |-> "json", decision |-> "SAME", confidence |-> 750]}

\* The number of calls in one run.
MaxEmbeddingCalls == 3

Build ==
    \E core_strings \in CoreStringLists, fail_at \in FailAts :
        /\ ops < MaxEmbeddingCalls
        /\ \E r \in {build(embedding_index, cache_file, core_strings, fail_at)} :
              /\ embedding_index' = r.ix
              /\ cache_file' = r.file
              /\ last' = [op |-> "build", core_strings |-> core_strings, exc |-> r.exc,
                          fetched |-> r.fetched, before |-> embedding_index]
        /\ ops' = ops + 1
        /\ UNCHANGED <<config, b_names, global_calls, cache, provider_queries, stats>>

Precompute ==
    \E core_strings \in CoreStringLists, fail_at \in FailAts :
        /\ ops < MaxEmbeddingCalls
        /\ \E r \in {precompute(embedding_index, cache_file, core_strings, fail_at)} :
              /\ embedding_index' = r.ix
              /\ cache_file' = r.file
              /\ last' = [op |-> "precompute", core_strings |-> core_strings, exc |-> r.exc,
                          fetched |-> r.fetched, before |-> embedding_index]
        /\ ops' = ops + 1
        /\ UNCHANGED <<config, b_names, global_calls, cache, provider_queries, stats>>

Query ==
    \E core_string \in QueryStrings, fails \in BOOLEAN :
        /\ ops < MaxEmbeddingCalls
        /\ \E r \in {query(embedding_index, core_string, fails)} :
              /\ embedding_index' = r.ix
              /\ \E result \in (IF r.exc # "none" THEN {NoneV}
                                ELSE {Some(x) : x \in r.results}) :
                    last' = [op |-> "query", core_string |-> core_string, exc |-> r.exc,
                             result |-> result, fails |-> fails,
                             before |-> embedding_index]
        /\ ops' = ops + 1
        /\ UNCHANGED <<cache_file, config, b_names, global_calls, cache, provider_queries,
                       stats>>

CosineSimilarity ==
    \E pair \in CosinePairs, fail_at \in {0, 1, 2} :
        /\ ops < MaxEmbeddingCalls
        /\ \E r \in {cosine_similarity(embedding_index, pair[1], pair[2], fail_at)} :
              /\ embedding_index' = r.ix
              /\ last' = [op |-> "cosine_similarity", pair |-> pair, exc |-> r.exc,
                          res |-> r.res, before |-> embedding_index]
        /\ ops' = ops + 1
        /\ UNCHANGED <<cache_file, config, b_names, global_calls, cache, provider_queries,
                       stats>>

ArbitrateInRun ==
    \E b \in ArbitrateNames, outcome \in RunOutcomes :
        /\ ops < MaxEmbeddingCalls
        /\ \E r \in {arbitrate(ArbiterState, n_acme_solutions, b, config, outcome)} :
              /\ global_calls' = r.st.global_calls
              /\ cache' = r.st.cache
              /\ provider_queries' = r.st.provider_queries
              /\ last' = [op |-> "arbitrate", pair |-> <<n_acme_solutions.core_string,
                                                        b.core_string>>,
                          decision |-> r.decision, response |-> r.response,
                          path |-> r.path, before |-> ArbiterState]
        /\ ops' = ops + 1
        /\ UNCHANGED <<embedding_index, cache_file, config, b_names, stats>>

InitEmbedding ==
    /\ config = [DefaultConfig EXCEPT !.llm_enabled = TRUE, !.provider = "present"]
    /\ b_names = <<>>
    /\ global_calls = 0
    /\ cache = <<>>
    /\ provider_queries = <<>>
    /\ stats = ZeroStats
    /\ last = [op |-> "init"]
    /\ ops = 0
    /\ embedding_index \in {EmbeddingIndex(c, p) :
                               c \in EmbeddingConfigs, p \in {"present", "none"}}
    /\ cache_file \in CacheFiles

NextEmbedding == Build \/ Precompute \/ Query \/ CosineSimilarity \/ ArbitrateInRun

SpecEmbedding == InitEmbedding /\ [][NextEmbedding]_vars

\* C24: when the provider fails on a later batch of build or precompute, the
\* vectors of every batch fetched before it are in the cache file.
C24_CacheSavedPerBatch ==
    (last.op \in {"build", "precompute"} /\ last.exc = "ProviderError") =>
        \A t \in last.fetched :
            /\ cache_file # NoneV
            /\ t \in DOMAIN Val(cache_file)
            /\ Val(cache_file)[t] = embed(t)

\* C25: query returns ([], []) when no provider is configured or the index
\* was never built; when the provider fails on a query text that is not in
\* the cache, query returns ([], []) without raising and leaves the matrix
\* and the cache unchanged.
C25_QueryFailure ==
    last.op = "query" =>
        /\ (last.before.embeddings = NoneV \/ last.before.provider = "none") =>
              /\ last.exc = "none"
              /\ last.result = Some([b_ids |-> <<>>, similarities |-> <<>>])
        /\ (/\ last.before.embeddings # NoneV
            /\ last.before.provider # "none"
            /\ last.core_string \notin DOMAIN last.before.cache
            /\ last.fails) =>
              /\ last.exc = "none"
              /\ last.result = Some([b_ids |-> <<>>, similarities |-> <<>>])
              /\ embedding_index.embeddings = last.before.embeddings
              /\ embedding_index.cache = last.before.cache

\* C26: no step of a run removes an entry from the in-memory embedding cache
\* or the arbiter response cache, or changes the value of one.
C26_AppendOnlyCaches ==
    [][/\ \A k \in DOMAIN embedding_index.cache :
             /\ k \in DOMAIN embedding_index'.cache
             /\ embedding_index'.cache[k] = embedding_index.cache[k]
       /\ \A k \in DOMAIN cache :
             /\ k \in DOMAIN cache'
             /\ cache'[k] = cache[k]]_vars

====
